---- MODULE Spec2Model ----
(***************************************************************************)
(* GCC v2 context store: the branch / commit / merge state machine of      *)
(* src/src/mcp/operations/{branch,merge}.ts over the document helpers of   *)
(* src/src/context.ts and the bootstrap templates (src/unnamed/part_001).  *)
(*                                                                         *)
(* A document is a sequence of lines; the file text is every line followed *)
(* by "\n".  A line is a record                                            *)
(*    k : the shape of the line                                            *)
(*    n : the digits of the first commit marker "## [C<digits>]" that the  *)
(*        line contains (<<>> when it contains none)                       *)
(*    a, b, c : the texts the shape is filled with                         *)
(*  "txt"  a                                   (a literal line)            *)
(*  "hdr"  ## [C<n>] <c> | branch:<a> | <b>    (head of a commit block)    *)
(*  "fld"  **<a>**: <b>                        (What / Why / Files / Next) *)
(*  "item" - <a>                               (bullet of main.md)         *)
(*  "ms"   - <c>: <b> (<a>)                    (milestone bullet)          *)
(*  "row"  | <a> | <b> | <c> |                 (registry history row)      *)
(*  "log"  [<c>] <a><b>                        (log.md line)               *)
(***************************************************************************)
EXTENDS Integers, Sequences, FiniteSets, TLC

VARIABLES fs, last, hist

vars == <<fs, last, hist>>

----------------------------------------------------------------------------
(* Bounds and the inputs drawn by the operations                            *)

MaxCommits == 2

Names == {"b1", "merged"}

TNone == "fix - (none) bug"

TNoneStripped == "fix  bug"

Titles == {"t1", TNone}

Now == "2026-02-26 10:00"

Today == "2026-02-26"

----------------------------------------------------------------------------
(* Lines                                                                    *)

L(k, n, a, b, c) == [k |-> k, n |-> n, a |-> a, b |-> b, c |-> c]

Txt(s) == L("txt", <<>>, s, "", "")

Blank == Txt("")

Item(s) == L("item", <<>>, s, "", "")

Hdr(id, branch, title) == L("hdr", id, branch, title, Now)

Fld(name, val) == L("fld", <<>>, name, val, "")

Ms(date, branch, title) == L("ms", <<>>, branch, title, date)

Row(name, status, date) == L("row", <<>>, name, status, date)

Log(ts, what, rest) == L("log", <<>>, what, rest, ts)

(* A line of free text that quotes the commit marker "## [C005]".           *)
MarkerText == L("txt", <<0, 0, 5>>, "see ## [C005]", "", "")

Purposes == {<<Txt("p1")>>, <<MarkerText>>}

Hypotheses == {<<Txt("h1")>>}

----------------------------------------------------------------------------
(* Sequences of lines                                                       *)

Take(s, k) == SubSeq(s, 1, k)

Drop(s, k) == SubSeq(s, k + 1, Len(s))

(* The least index among hits (String.prototype.indexOf, RegExp match      *)
(* position), 0 when there is none.                                         *)
Least(hits) ==
  IF hits = {} THEN 0 ELSE CHOOSE i \in hits : \A j \in hits : i <= j

(* String.prototype.trimEnd on a document: the trailing blank lines and the *)
(* last line's "\n" go.  The result is the lines that stay; the last of     *)
(* them is left unterminated, so the caller's "\n" ends it.                 *)
RECURSIVE TrimEnd(_)
TrimEnd(s) ==
  IF s = <<>> THEN <<>>
  ELSE IF s[Len(s)] = Blank THEN TrimEnd(Take(s, Len(s) - 1)) ELSE s

(* trimmed + "\n" + more: an empty trimmed text leaves an empty first line. *)
AfterTrimEnd(s, more) ==
  IF TrimEnd(s) = <<>> THEN <<Blank>> \o more ELSE TrimEnd(s) \o more

(* "\n## ": a line that begins with "## ".                                  *)
H2Texts ==
  {"## Current Focus", "## Recent Milestones", "## Open Branches",
   "## Purpose", "## Hypothesis", "## Conclusion", "## Findings",
   "## Active Branch", "## Branch History"}

IsH2(l) == l.k = "hdr" \/ (l.k = "txt" /\ l.a \in H2Texts)

(* startsWith('- ')                                                         *)
IsBullet(l) == l.k \in {"item", "ms"}

----------------------------------------------------------------------------
(* Commit identifiers: 'C' and a decimal number, as a sequence of digits    *)

RECURSIVE ParseInt(_)
ParseInt(ds) ==
  IF ds = <<>> THEN 0 ELSE 10 * ParseInt(Take(ds, Len(ds) - 1)) + ds[Len(ds)]

RECURSIVE ToDigits(_)
ToDigits(n) == IF n < 10 THEN <<n>> ELSE ToDigits(n \div 10) \o <<n % 10>>

RECURSIVE PadStart(_, _)
PadStart(ds, w) == IF Len(ds) >= w THEN ds ELSE PadStart(<<0>> \o ds, w)

IdWidth == 3

FormatId(n) == PadStart(ToDigits(n), IdWidth)

DigitStr == <<"1", "2", "3", "4", "5", "6", "7", "8", "9">>

RECURSIVE DigitsStr(_)
DigitsStr(ds) ==
  IF ds = <<>> THEN ""
  ELSE (IF ds[1] = 0 THEN "0" ELSE DigitStr[ds[1]]) \o DigitsStr(Drop(ds, 1))

IdStr(id) == "C" \o DigitsStr(id)

----------------------------------------------------------------------------
(* Paths and the file system: fs.files maps the paths of the files that     *)
(* exist to their lines, fs.dirs holds the branch directories that exist.   *)

MainMdPath == <<"main.md">>

RegistryPath == <<"branches", "_registry.md">>

getCommitsPath(branch) == <<"branches", branch, "commits.md">>

getLogPath(branch) == <<"branches", branch, "log.md">>

existsSync(f, path) == path \in DOMAIN f.files

writeFile(f, path, lines) == [f EXCEPT !.files = (path :> lines) @@ f.files]

mkdirSync(f, branch) == [f EXCEPT !.dirs = f.dirs \cup {branch}]

----------------------------------------------------------------------------
(* src/src/context.ts                                                       *)

HasMarker(l) == l.n # <<>>

(* getNextCommitId: the first "## [C<digits>]" of the journal text, plus 1. *)
getNextCommitId(f, branch) ==
  IF ~existsSync(f, getCommitsPath(branch)) THEN FormatId(1)
  ELSE LET content == f.files[getCommitsPath(branch)]
           i == Least({q \in 1..Len(content) : HasMarker(content[q])})
       IN  IF i = 0 THEN FormatId(1)
           ELSE FormatId(ParseInt(content[i].n) + 1)

ActiveHeading == Txt("## Active Branch")

(* /## Active Branch\n(\S+)/ : the heading line, then a line that begins    *)
(* with a word.                                                             *)
ActiveIdx(content) ==
  LET hits == {i \in 1..(Len(content) - 1) :
                 /\ content[i] = ActiveHeading
                 /\ content[i + 1].k = "txt"
                 /\ content[i + 1].a # ""}
  IN  IF hits = {} THEN 0 ELSE CHOOSE i \in hits : \A j \in hits : i <= j

getActiveBranch(f) ==
  IF ~existsSync(f, RegistryPath) THEN "main"
  ELSE LET content == f.files[RegistryPath]
           i == ActiveIdx(content)
       IN  IF i = 0 THEN "main" ELSE content[i + 1].a

updateRegistryActiveBranch_NoWrite(f, newBranch) == f

updateRegistryActiveBranch(f, newBranch) ==
  IF ~existsSync(f, RegistryPath) THEN f
  ELSE LET content == f.files[RegistryPath]
           i == ActiveIdx(content)
       IN  writeFile(f, RegistryPath,
             IF i = 0 THEN content
             ELSE [content EXCEPT ![i + 1] = Txt(newBranch)])

addBranchToRegistry_ClobbersLastLine(f, branchName, date) ==
  IF ~existsSync(f, RegistryPath) THEN f
  ELSE LET kept == TrimEnd(f.files[RegistryPath])
       IN  writeFile(f, RegistryPath,
             Take(kept, Len(kept) - 1) \o <<Row(branchName, "active", date)>>)

addBranchToRegistry(f, branchName, date) ==
  IF ~existsSync(f, RegistryPath) THEN f
  ELSE writeFile(f, RegistryPath,
         AfterTrimEnd(f.files[RegistryPath], <<Row(branchName, "active", date)>>))

(* new RegExp(`\\| ${escaped} \\| \\S+ \\|`): in a table line | a | b | c | *)
(* the first cell equal to the name that has a cell after it.               *)
RowMatches(l, name) ==
  l.k = "row" /\ ((l.a = name /\ l.b # "") \/ (l.b = name /\ l.c # ""))

RowReplace(l, name, status) ==
  IF l.a = name /\ l.b # "" THEN [l EXCEPT !.b = status]
  ELSE [l EXCEPT !.c = status]

updateRegistryBranchStatus(f, branchName, status) ==
  IF ~existsSync(f, RegistryPath) THEN f
  ELSE LET content == f.files[RegistryPath]
           hits == {i \in 1..Len(content) : RowMatches(content[i], branchName)}
           i == IF hits = {} THEN 0 ELSE CHOOSE i \in hits : \A j \in hits : i <= j
       IN  writeFile(f, RegistryPath,
             IF i = 0 THEN content
             ELSE [content EXCEPT ![i] = RowReplace(content[i], branchName, status)])

JournalAnchor == Txt("# Milestone Journal")

(* A line of free text that ends with the words of the anchor.             *)
AnchorQuote == Txt("compare with # Milestone Journal")

(* The line's text ends with '# Milestone Journal'.                         *)
EndsWithAnchor(l) == l \in {JournalAnchor, AnchorQuote}

(* existing.indexOf('# Milestone Journal\n\n'): a substring search, so the  *)
(* first line that ends with the anchor's words and is followed by an empty *)
(* line; the result is the index of that empty line, 0 if none.             *)
AnchorEnd(existing) ==
  LET hits == {i \in 1..(Len(existing) - 1) :
                 EndsWithAnchor(existing[i]) /\ existing[i + 1] = Blank}
  IN  IF hits = {} THEN 0
      ELSE (CHOOSE i \in hits : \A j \in hits : i <= j) + 1

BlankEnd_Last(existing) ==
  LET hits == {i \in 2..Len(existing) : existing[i] = Blank}
  IN  IF hits = {} THEN 0 ELSE CHOOSE i \in hits : \A j \in hits : i >= j

(* existing.indexOf('\n\n'): the first empty line that follows a line.      *)
BlankEnd(existing) ==
  LET hits == {i \in 2..Len(existing) : existing[i] = Blank}
  IN  IF hits = {} THEN 0 ELSE CHOOSE i \in hits : \A j \in hits : i <= j

prependCommit_DropsOlder(f, branch, entry) ==
  LET g == mkdirSync(f, branch)
      path == getCommitsPath(branch)
      existing == IF existsSync(g, path) THEN g.files[path]
                  ELSE <<JournalAnchor, Blank>>
  IN  writeFile(g, path, Take(existing, AnchorEnd(existing)) \o entry)

prependCommit(f, branch, entry) ==
  LET g == mkdirSync(f, branch)
      path == getCommitsPath(branch)
      existing == IF existsSync(g, path) THEN g.files[path]
                  ELSE <<JournalAnchor, Blank>>
      at == AnchorEnd(existing)
      he == BlankEnd(existing)
  IN  IF at # 0
      THEN writeFile(g, path, Take(existing, at) \o entry \o Drop(existing, at))
      ELSE IF he # 0
      THEN writeFile(g, path, Take(existing, he) \o entry \o Drop(existing, he))
      ELSE writeFile(g, path, existing \o <<Blank>> \o entry)

MilestonesHeading == Txt("## Recent Milestones")

OpenHeading == Txt("## Open Branches")

(* l.includes('(none yet)')                                                 *)
HasNoneYet(l) == l.k = "item" /\ l.a = "(none yet)"

(* The index of the first line after `start` that begins a section, or      *)
(* Len + 1 when the section runs to the end of the text.                    *)
SectionEnd(content, start) ==
  LET j == Least({q \in start + 1..Len(content) : IsH2(content[q])})
  IN  IF j = 0 THEN Len(content) + 1 ELSE j

(* The text from a section's end on: the "\n" that ended the section's last *)
(* line (an empty line now) and the following sections.                     *)
Rest(content, j) ==
  IF j > Len(content) THEN <<>> ELSE <<Blank>> \o Drop(content, j - 1)

IsMilestonesHeading(l) == l = MilestonesHeading

IsOpenHeading(l) == l = OpenHeading

SelectSeqKept(section) ==
  SelectSeq(section, LAMBDA l : IsBullet(l) /\ ~HasNoneYet(l))

(* Array.prototype.slice(0, end): a negative end counts from the back.     *)
Slice0(s, end) ==
  IF end >= Len(s) THEN s
  ELSE IF end >= 0 THEN Take(s, end)
  ELSE IF Len(s) + end > 0 THEN Take(s, Len(s) + end)
  ELSE <<>>

updateMainMilestones(f, date, branch, title, milestonesKept) ==
  IF ~existsSync(f, MainMdPath) THEN f
  ELSE LET content == f.files[MainMdPath]
           i == Least({q \in 1..Len(content) : IsMilestonesHeading(content[q])})
           j == SectionEnd(content, i)
           lines == SelectSeqKept(SubSeq(content, i, j - 1))
           all == <<Ms(date, branch, title)>> \o lines
           updated == Slice0(all, milestonesKept)
       IN  IF i = 0 THEN f
           ELSE writeFile(f, MainMdPath,
                  Take(content, i - 1) \o <<MilestonesHeading>>
                    \o (IF updated = <<>> THEN <<Blank>> ELSE updated)
                    \o Rest(content, j))

(* /- \(none\)\n?/ : the first "- (none)" of the text.  The bullet          *)
(* "- (none)" goes with its line end; inside a milestone bullet only the    *)
(* matched text goes.                                                       *)
NoneTitles == {TNone}

StripNone(title) == IF title = TNone THEN TNoneStripped ELSE title

ContainsNone(l) ==
  (l.k = "item" /\ l.a = "(none)") \/ (l.k = "ms" /\ l.b \in NoneTitles)

RemoveNone(content) ==
  LET i == Least({q \in 1..Len(content) : ContainsNone(content[q])})
  IN  IF i = 0 THEN content
      ELSE IF content[i].k = "item" THEN Take(content, i - 1) \o Drop(content, i)
      ELSE [content EXCEPT ![i].b = StripNone(content[i].b)]

(* The section start is taken before "- (none)" is removed and used after   *)
(* it: a removal above the heading moves the text by at most 9 characters,  *)
(* fewer than the heading is long, so the search for the next "\n## " still *)
(* starts inside the heading line.                                          *)
addBranchToMainMd(f, branchName) ==
  IF ~existsSync(f, MainMdPath) THEN f
  ELSE LET content0 == f.files[MainMdPath]
           content == RemoveNone(content0)
           i == Least({q \in 1..Len(content) : IsOpenHeading(content[q])})
           j == SectionEnd(content, i)
       IN  IF Least({q \in 1..Len(content0) : IsOpenHeading(content0[q])}) = 0 THEN f
           ELSE writeFile(f, MainMdPath,
                  AfterTrimEnd(Take(content, j - 1), <<Item(branchName)>>)
                    \o Rest(content, j))

(* new RegExp(`^- ${escaped}$\\n?`, 'm'): the first line that is exactly    *)
(* "- <name>".                                                              *)
removeBranchFromMainMd(f, branchName) ==
  IF ~existsSync(f, MainMdPath) THEN f
  ELSE LET content0 == f.files[MainMdPath]
           hits == {x \in 1..Len(content0) : content0[x] = Item(branchName)}
           k == IF hits = {} THEN 0 ELSE CHOOSE x \in hits : \A y \in hits : x <= y
           content == IF k = 0 THEN content0
                      ELSE Take(content0, k - 1) \o Drop(content0, k)
           i == Least({q \in 1..Len(content) : IsOpenHeading(content[q])})
           j == SectionEnd(content, i)
           body == SubSeq(content, i + 1, j - 1)
       IN  writeFile(f, MainMdPath,
             IF i # 0 /\ Least({q \in 1..Len(body) : IsBullet(body[q])}) = 0
             THEN Take(content, i - 1) \o <<OpenHeading, Item("(none)")>>
                    \o Rest(content, j)
             ELSE content)

ConclusionHeading == Txt("## Conclusion")

(* "(Fill in at merge time — success/failure/partial)"                      *)
PlaceholderLine == Txt("(Fill in at merge time - success/failure/partial)")

(* /## Conclusion\n\(Fill in at merge time[^)]*\)/                          *)
updateBranchConclusion(f, branchName, outcome, conclusion) ==
  IF ~existsSync(f, getCommitsPath(branchName)) THEN f
  ELSE LET content == f.files[getCommitsPath(branchName)]
           hits == {x \in 1..(Len(content) - 1) :
                      content[x] = ConclusionHeading /\ content[x + 1] = PlaceholderLine}
           i == IF hits = {} THEN 0 ELSE CHOOSE x \in hits : \A y \in hits : x <= y
       IN  writeFile(f, getCommitsPath(branchName),
             IF i = 0 THEN content
             ELSE Take(content, i) \o <<Fld("Outcome", outcome), Txt(conclusion)>>
                    \o Drop(content, i + 1))

LogMaxLinesDefault == 500

LogTail == 200

appendLog_ToMain(f, branch, line, maxLines) ==
  LET path == getLogPath("main")
  IN  writeFile(f, path,
        (IF existsSync(f, path) THEN f.files[path] ELSE <<>>) \o <<line>>)

(* appendFile(line + '\n'), then: split('\n') counts one more than the      *)
(* lines (the empty text after the last "\n"); slice(-200) keeps that empty *)
(* text and the 199 lines before it.                                        *)
appendLog(f, branch, line, maxLines) ==
  LET g == mkdirSync(f, branch)
      path == getLogPath(branch)
      content == (IF existsSync(g, path) THEN g.files[path] ELSE <<>>) \o <<line>>
      keep == IF Len(content) < LogTail THEN Len(content) ELSE LogTail - 1
  IN  writeFile(g, path,
        IF Len(content) + 1 > maxLines THEN Drop(content, Len(content) - keep)
        ELSE content)

----------------------------------------------------------------------------
(* src/unnamed/part_001 (bootstrap, v2 layout)                              *)

MAIN_MD_TEMPLATE ==
  <<Txt("# Project Context"), Blank,
    Txt("## Current Focus"),
    Txt("(Auto-created by GCC. Update with current goals.)"), Blank,
    MilestonesHeading, Item("(none yet)"), Blank,
    OpenHeading, Item("(none)")>>

REGISTRY_TEMPLATE ==
  <<ActiveHeading, Txt("main"), Blank,
    Txt("## Branch History"),
    Row("Branch", "Status", "Created"),
    Txt("|--------|--------|---------|")>>

COMMITS_TEMPLATE == <<JournalAnchor, Blank>>

ensureFile(f, path, template) ==
  IF existsSync(f, path) THEN f ELSE writeFile(f, path, template)

ensureContextStructure(f) ==
  ensureFile(
    ensureFile(
      ensureFile(
        ensureFile(mkdirSync(f, "main"), MainMdPath, MAIN_MD_TEMPLATE),
        RegistryPath, REGISTRY_TEMPLATE),
      getCommitsPath("main"), COMMITS_TEMPLATE),
    getLogPath("main"), <<>>)

BranchHeader(branch, purpose, hypothesis) ==
  <<Txt("# Branch: " \o branch), Blank, Txt("## Purpose")>> \o purpose
    \o <<Blank, Txt("## Hypothesis")>> \o hypothesis
    \o <<Blank, ConclusionHeading, PlaceholderLine, Blank, Txt("---"), Blank,
         JournalAnchor, Blank>>

ensureBranchDir(f, branch, purpose, hypothesis) ==
  ensureFile(
    ensureFile(mkdirSync(f, branch), getCommitsPath(branch),
               BranchHeader(branch, purpose, hypothesis)),
    getLogPath(branch), <<>>)

----------------------------------------------------------------------------
(* src/src/config.ts: DEFAULTS                                              *)

MilestonesKept == 5

(* .gcc/config.json, next to the context root.  The file, when it exists,   *)
(* is one record; a milestonesKept or logMaxLines that is a number replaces *)
(* the default.  A file that leaves a key out reads as one that gives the   *)
(* key its default.                                                         *)
ConfigPath == <<"..", "config.json">>

ConfigFileOf(milestonesKept, logMaxLines) ==
  <<[k |-> "json", milestonesKept |-> milestonesKept, logMaxLines |-> logMaxLines]>>

ConfigFile(milestonesKept) == ConfigFileOf(milestonesKept, LogMaxLinesDefault)

loadConfig(f) ==
  IF existsSync(f, ConfigPath) /\ f.files[ConfigPath][1].milestonesKept \in Int
                               /\ f.files[ConfigPath][1].logMaxLines \in Int
  THEN [milestonesKept |-> f.files[ConfigPath][1].milestonesKept,
        logMaxLines |-> f.files[ConfigPath][1].logMaxLines]
  ELSE [milestonesKept |-> MilestonesKept, logMaxLines |-> LogMaxLinesDefault]

----------------------------------------------------------------------------
(* The handlers.  A handler's value is the file system it leaves and the    *)
(* result it returns: r.ok tells a success from an "Error: ..." text, r.err *)
(* names the error, r.id is the commit identifier in the text, r.branch the *)
(* branch the text names.                                                   *)

Ok(id, branch) == [ok |-> TRUE, err |-> "", id |-> id, branch |-> branch]

Err(what) == [ok |-> FALSE, err |-> what, id |-> <<>>, branch |-> ""]

RECURSIVE Join(_)
Join(xs) ==
  IF xs = <<>> THEN ""
  ELSE IF Len(xs) = 1 THEN xs[1] ELSE xs[1] \o ", " \o Join(Drop(xs, 1))

Entry(id, branch, title, what, why, files, next) ==
  <<Hdr(id, branch, title), Fld("What", what), Fld("Why", why),
    Fld("Files", files), Fld("Next", next), Blank, Txt("---"), Blank>>

(* src/src/mcp/operations/merge.ts: handleCommit                            *)
commitError_NoNextCheck(args) ==
  IF \/ args.title = "" \/ args.what = "" \/ args.why = ""
     \/ Len(args.files_changed) = 0
  THEN "required" ELSE ""

(* handleCommit, lines 106-108: the check before the first read ("" when    *)
(* the call passes it).                                                     *)
commitError(args) ==
  IF \/ args.title = "" \/ args.what = "" \/ args.why = ""
     \/ Len(args.files_changed) = 0 \/ args.next_step = ""
  THEN "required" ELSE ""

handleCommit(f, args) ==
  IF commitError(args) # ""
  THEN [f |-> f, r |-> Err(commitError(args))]
  ELSE LET branch == getActiveBranch(f)
           commitId == getNextCommitId(f, branch)
           entry == Entry(commitId, branch, args.title, args.what, args.why,
                          Join(args.files_changed), args.next_step)
           f1 == prependCommit(f, branch, entry)
           f2 == updateMainMilestones(f1, Today, branch, args.title,
                                           loadConfig(f).milestonesKept)
           f3 == appendLog(f2, branch,
                   Log(Now, "COMMIT ", IdStr(commitId) \o ": " \o args.title),
                   LogMaxLinesDefault)
       IN  [f |-> f3, r |-> Ok(commitId, branch)]

(* The characters of the names the operations draw, by class: "l" a        *)
(* lowercase letter, "d" a digit, "-" the hyphen, "x" any other character.  *)
Chars(name) ==
  CASE name = "b1" -> <<"l", "d">>
    [] name = "b2" -> <<"l", "d">>
    [] name = "a-1" -> <<"l", "-", "d">>
    [] name = "main" -> <<"l", "l", "l", "l">>
    [] name = "merged" -> <<"l", "l", "l", "l", "l", "l">>
    [] name = "Bad_Name" -> <<"x", "l", "l", "x", "x", "l", "l", "l">>
    [] name = "a_b" -> <<"l", "x", "l">>
    [] name = "a--b" -> <<"l", "-", "-", "l">>
    [] name = "-a" -> <<"-", "l">>
    [] name = "a-" -> <<"l", "-">>
    [] name = "1a" -> <<"d", "l">>
    [] name = "" -> <<>>
    [] OTHER -> <<"x">>

(* /^[a-z][a-z0-9]*(-[a-z0-9]+)*$/: a letter first, then letters, digits    *)
(* and hyphens, each hyphen followed by a letter or a digit.                *)
KebabMatch(cs) ==
  /\ Len(cs) >= 1
  /\ cs[1] = "l"
  /\ \A i \in 1..Len(cs) :
       \/ cs[i] \in {"l", "d"}
       \/ cs[i] = "-" /\ i < Len(cs) /\ cs[i + 1] \in {"l", "d"}

IsKebab(name) == KebabMatch(Chars(name))

branchError_NoKebabCheck(f, args) ==
  IF args.name = "" \/ args.purpose = <<>> \/ args.hypothesis = <<>>
  THEN "required"
  ELSE IF getActiveBranch(f) # "main" THEN "must be on main"
  ELSE IF args.name \in f.dirs THEN "already exists"
  ELSE ""

(* src/src/mcp/operations/branch.ts: handleBranch, the checks before the    *)
(* first write ("" when the call passes them all).                          *)
branchError_NoActiveCheck(f, args) ==
  IF args.name = "" \/ args.purpose = <<>> \/ args.hypothesis = <<>>
  THEN "required"
  ELSE IF ~IsKebab(args.name) THEN "kebab-case"
  ELSE IF args.name \in f.dirs THEN "already exists"
  ELSE ""

branchError_NoExistsCheck(f, args) ==
  IF args.name = "" \/ args.purpose = <<>> \/ args.hypothesis = <<>>
  THEN "required"
  ELSE IF ~IsKebab(args.name) THEN "kebab-case"
  ELSE IF getActiveBranch(f) # "main" THEN "must be on main"
  ELSE ""

branchError(f, args) ==
  IF args.name = "" \/ args.purpose = <<>> \/ args.hypothesis = <<>>
  THEN "required"
  ELSE IF ~IsKebab(args.name) THEN "kebab-case"
  ELSE IF getActiveBranch(f) # "main" THEN "must be on main"
  ELSE IF args.name \in f.dirs THEN "already exists"
  ELSE ""

(* src/src/mcp/operations/branch.ts: handleBranch                           *)
handleBranch(f, args) ==
  IF branchError(f, args) # "" THEN [f |-> f, r |-> Err(branchError(f, args))]
  ELSE LET f1 == ensureBranchDir(f, args.name, args.purpose, args.hypothesis)
           f2 == updateRegistryActiveBranch(f1, args.name)
           f3 == addBranchToRegistry(f2, args.name, Today)
           f4 == addBranchToMainMd(f3, args.name)
           f5 == appendLog(f4, args.name,
                   Log(Today, "BRANCH created: ", args.name), LogMaxLinesDefault)
       IN  [f |-> f5, r |-> Ok(<<>>, args.name)]

OUTCOMES == {"success", "failure", "partial"}

MergeTitle(branch_name, outcome) ==
  "Merge: " \o branch_name \o " (" \o outcome \o ")"

(* src/src/mcp/operations/merge.ts: handleMerge, the checks before the      *)
(* first write ("" when the call passes them all).                          *)
mergeError_NoOutcomeCheck(f, args) ==
  IF args.branch_name = "main" THEN "cannot merge main"
  ELSE IF args.branch_name = "" \/ args.outcome = "" \/ args.conclusion = ""
  THEN "required"
  ELSE IF getActiveBranch(f) # args.branch_name THEN "must be on branch"
  ELSE ""

mergeError_NeedsCommits(f, args) ==
  IF args.branch_name = "main" THEN "cannot merge main"
  ELSE IF args.branch_name = "" \/ args.outcome = "" \/ args.conclusion = ""
  THEN "required"
  ELSE IF args.outcome \notin OUTCOMES THEN "outcome"
  ELSE IF getActiveBranch(f) # args.branch_name THEN "must be on branch"
  ELSE IF getNextCommitId(f, args.branch_name) = FormatId(1) THEN "nothing to merge"
  ELSE ""

mergeError(f, args) ==
  IF args.branch_name = "main" THEN "cannot merge main"
  ELSE IF args.branch_name = "" \/ args.outcome = "" \/ args.conclusion = ""
  THEN "required"
  ELSE IF args.outcome \notin OUTCOMES THEN "outcome"
  ELSE IF getActiveBranch(f) # args.branch_name THEN "must be on branch"
  ELSE ""

(* src/src/mcp/operations/merge.ts: handleMerge                             *)
handleMerge(f, args) ==
  IF mergeError(f, args) # "" THEN [f |-> f, r |-> Err(mergeError(f, args))]
  ELSE LET bn == args.branch_name
           f1 == updateBranchConclusion(f, bn, args.outcome, args.conclusion)
           commitId == getNextCommitId(f1, "main")
           entry == Entry(commitId, "main", MergeTitle(bn, args.outcome),
                      "Merged exploration branch '" \o bn \o "'. " \o args.conclusion,
                      "Consolidate findings from exploration.",
                      ".gcc/context/branches/" \o bn \o "/",
                      "Continue on main with findings applied.")
           f2 == prependCommit(f1, "main", entry)
           f3 == updateMainMilestones(f2, Today, "main",
                   MergeTitle(bn, args.outcome), loadConfig(f).milestonesKept)
           f4 == updateRegistryActiveBranch(f3, "main")
           f5 == updateRegistryBranchStatus(f4, bn, "merged")
           f6 == removeBranchFromMainMd(f5, bn)
           f7 == appendLog(f6, bn,
                   Log(Now, "MERGE ", args.outcome \o ": " \o args.conclusion),
                   LogMaxLinesDefault)
           f8 == appendLog(f7, "main",
                   Log(Now, "MERGE ",
                       IdStr(commitId) \o ": " \o bn \o " (" \o args.outcome \o ")"),
                   LogMaxLinesDefault)
       IN  [f |-> f8, r |-> Ok(commitId, bn)]

----------------------------------------------------------------------------
(* The state machine: one tool call at a time.  fs is the context          *)
(* directory; last is the latest call (op, args) and the result r that its  *)
(* handler returned; hist records the branches that a gcc_branch call has   *)
(* created and those that a gcc_merge call has merged (neither is read by   *)
(* a handler).                                                              *)

EmptyFs == [files |-> <<>>, dirs |-> {}]

NoCall == [op |-> "none", args |-> <<>>, r |-> Err("")]

Init ==
  /\ fs = ensureContextStructure(EmptyFs)
  /\ last = NoCall
  /\ hist = [created |-> {}, merged |-> {}]

Call(op, args, out) ==
  /\ fs' = out.f
  /\ last' = [op |-> op, args |-> args, r |-> out.r]
  /\ hist' = IF ~out.r.ok THEN hist
             ELSE IF op = "branch"
             THEN [hist EXCEPT !.created = @ \cup {out.r.branch}]
             ELSE IF op = "merge"
             THEN [hist EXCEPT !.merged = @ \cup {out.r.branch}]
             ELSE hist

IsCommitHdr(l) == l.k = "hdr" /\ l.b \in Titles

(* The commits recorded by gcc_commit so far, on all branches together      *)
(* (merge commits apart).                                                   *)
UserCommits(f) ==
  LET n[B \in SUBSET f.dirs] ==
        IF B = {} THEN 0
        ELSE LET b == CHOOSE x \in B : TRUE
             IN  n[B \ {b}]
                   + (IF existsSync(f, getCommitsPath(b))
                      THEN Len(SelectSeq(f.files[getCommitsPath(b)], IsCommitHdr))
                      ELSE 0)
  IN  n[f.dirs]

CommitArgs(title, what, files) ==
  [title |-> title, what |-> what, why |-> "y1", files_changed |-> files,
   next_step |-> "n1"]

Commit ==
  /\ UserCommits(fs) < MaxCommits
  /\ \E title \in Titles :
       LET args == CommitArgs(title, "w1", <<"f1">>)
       IN  Call("commit", args, handleCommit(fs, args))

CommitInvalid ==
  \E args \in {CommitArgs("", "w1", <<"f1">>), CommitArgs("t1", "", <<"f1">>),
               CommitArgs("t1", "w1", <<>>),
               [CommitArgs("t1", "w1", <<"f1">>) EXCEPT !.why = ""],
               [CommitArgs("t1", "w1", <<"f1">>) EXCEPT !.next_step = ""]} :
    Call("commit", args, handleCommit(fs, args))

BranchArgs(name, purpose, hypothesis) ==
  [name |-> name, purpose |-> purpose, hypothesis |-> hypothesis]

BranchInputs ==
  {BranchArgs(name, purpose, <<Txt("h1")>>) : name \in Names, purpose \in Purposes}
    \cup {BranchArgs("main", <<Txt("p1")>>, <<Txt("h1")>>),
          BranchArgs("Bad_Name", <<Txt("p1")>>, <<Txt("h1")>>),
          BranchArgs("b1", <<>>, <<Txt("h1")>>)}

Branch ==
  \E args \in BranchInputs : Call("branch", args, handleBranch(fs, args))

MergeArgs(branch_name, outcome, conclusion) ==
  [branch_name |-> branch_name, outcome |-> outcome, conclusion |-> conclusion]

MergeInputs ==
  {MergeArgs("b1", "success", "c1"), MergeArgs("b1", "failure", "c1"),
   MergeArgs("merged", "partial", "c1"),
   MergeArgs("main", "success", "c1"), MergeArgs("b1", "bogus", "c1"),
   MergeArgs("merged", "success", "")}

Merge ==
  \E args \in MergeInputs : Call("merge", args, handleMerge(fs, args))

Next == Commit \/ CommitInvalid \/ Branch \/ Merge

Spec == Init /\ [][Next]_vars

----------------------------------------------------------------------------
(* What the claims read off a state                                         *)

IsHdr(l) == l.k = "hdr"

(* The heads of the commit blocks of a branch's journal, top to bottom.     *)
Blocks(f, branch) ==
  IF ~existsSync(f, getCommitsPath(branch)) THEN <<>>
  ELSE SelectSeq(f.files[getCommitsPath(branch)], IsHdr)

IsHistoryRow(l) == l.k = "row" /\ l # Row("Branch", "Status", "Created")

(* The rows of the registry's history table.                                *)
HistoryRows(f) == SelectSeq(f.files[RegistryPath], IsHistoryRow)

RowsOf(f, name) == SelectSeq(HistoryRows(f), LAMBDA l : l.a = name)

(* The bullets of the Open Branches section of main.md.                     *)
OpenList(f) ==
  LET content == f.files[MainMdPath]
      i == Least({q \in 1..Len(content) : IsOpenHeading(content[q])})
  IN  SelectSeq(SubSeq(content, i + 1, SectionEnd(content, i) - 1), IsBullet)

InSeq(x, s) == \E i \in 1..Len(s) : s[i] = x

(* The journal a record of the latest call went to.                         *)
Target == IF last.op = "merge" THEN "main" ELSE last.r.branch

WroteRecord == last.op \in {"commit", "merge"} /\ last.r.ok

----------------------------------------------------------------------------
(* C1: on every branch the k-th record written to the journal (a commit,    *)
(* on main also a merge commit) gets the identifier C<k>, k padded to three *)
(* digits: the call that writes a record to a journal holding k-1 blocks    *)
(* returns C<k> and heads the new block with it.                            *)
C1_SequentialIds ==
  [][WroteRecord' =>
       /\ last'.r.id = FormatId(Len(Blocks(fs, Target')) + 1)
       /\ Len(Blocks(fs', Target')) = Len(Blocks(fs, Target')) + 1
       /\ Blocks(fs', Target')[1].n = last'.r.id]_vars

(* C2: the commit blocks of every journal are newest first, so their        *)
(* identifiers read in strictly descending order from the top.              *)
C2_NewestFirst ==
  \A b \in fs.dirs :
    \A i \in 1..(Len(Blocks(fs, b)) - 1) :
      ParseInt(Blocks(fs, b)[i].n) > ParseInt(Blocks(fs, b)[i + 1].n)

(* C3: a successful merge(b, outcome, conclusion) adds exactly one commit   *)
(* to main's journal, titled "Merge: b (outcome)" and carrying main's next  *)
(* identifier, which it returns; leaves 'main' active; leaves b's registry  *)
(* row with status 'merged'; and leaves b out of the open-branch list,      *)
(* which shows "(none)" when it holds no branch.                            *)
C3_MergePost ==
  [][(last'.op = "merge" /\ last'.r.ok) =>
       LET b == last'.args.branch_name
           new == Hdr(FormatId(Len(Blocks(fs, "main")) + 1), "main",
                      MergeTitle(b, last'.args.outcome))
       IN  /\ Blocks(fs', "main") = <<new>> \o Blocks(fs, "main")
           /\ last'.r.id = new.n
           /\ getActiveBranch(fs') = "main"
           /\ Len(RowsOf(fs', b)) = 1
           /\ RowsOf(fs', b)[1].b = "merged"
           /\ ~InSeq(Item(b), OpenList(fs'))
           /\ (\A n \in Names : ~InSeq(Item(n), OpenList(fs')))
                => InSeq(Item("(none)"), OpenList(fs'))]_vars

(* C4: a successful branch(name, purpose, hypothesis) leaves the branch     *)
(* directory with a journal that is the header (purpose, hypothesis, the    *)
(* unfilled conclusion placeholder) followed by the journal anchor; name    *)
(* active in the registry; a history row (name, active, creation date);     *)
(* and name in the open-branch list, which shows no "(none)".               *)
C4_BranchPost ==
  [][(last'.op = "branch" /\ last'.r.ok) =>
       LET name == last'.args.name
       IN  /\ name \in fs'.dirs
           /\ existsSync(fs', getCommitsPath(name))
           /\ fs'.files[getCommitsPath(name)] =
                <<Txt("# Branch: " \o name), Blank, Txt("## Purpose")>>
                  \o last'.args.purpose \o <<Blank, Txt("## Hypothesis")>>
                  \o last'.args.hypothesis
                  \o <<Blank, Txt("## Conclusion"), PlaceholderLine, Blank,
                       Txt("---"), Blank, Txt("# Milestone Journal"), Blank>>
           /\ getActiveBranch(fs') = name
           /\ InSeq(Row(name, "active", Today), HistoryRows(fs'))
           /\ InSeq(Item(name), OpenList(fs'))
           /\ ~InSeq(Item("(none)"), OpenList(fs'))]_vars

(* C5: a successful branch(n, ...) followed immediately by merge(n, outcome, *)
(* conclusion) with a valid outcome and a non-empty conclusion: the merge   *)
(* succeeds and leaves 'main' the active branch.                            *)
C5_BranchThenMerge ==
  [][(/\ last.op = "branch" /\ last.r.ok
      /\ last'.op = "merge"
      /\ last'.args.branch_name = last.args.name
      /\ last'.args.outcome \in {"success", "failure", "partial"}
      /\ last'.args.conclusion # "")
       => (last'.r.ok /\ getActiveBranch(fs') = "main")]_vars

C5_Witness ==
  /\ last.op = "merge" /\ last.r.ok
  /\ Blocks(fs, last.args.branch_name) = <<>>
  /\ getActiveBranch(fs) = "main"

(* C6: branch(name, ...) called while the active branch is not 'main'       *)
(* returns an error and leaves the directories and every document as they   *)
(* were.                                                                    *)
C6_BranchOffMain ==
  [][(last'.op = "branch" /\ getActiveBranch(fs) # "main")
       => (~last'.r.ok /\ fs' = fs)]_vars

C6_Witness ==
  /\ last.op = "branch" /\ ~last.r.ok /\ last.r.err = "must be on main"
  /\ last.args.name \notin fs.dirs
  /\ getActiveBranch(fs) # "main"

(* C7: merge(branchName, outcome, conclusion) returns an error and leaves   *)
(* every document unchanged whenever branchName is 'main', or the active    *)
(* branch is not branchName, or the outcome is none of success / failure /  *)
(* partial, or a field is empty.                                            *)
C7_MergeGuards ==
  [][(/\ last'.op = "merge"
      /\ \/ last'.args.branch_name = "main"
         \/ getActiveBranch(fs) # last'.args.branch_name
         \/ last'.args.outcome \notin {"success", "failure", "partial"}
         \/ last'.args.branch_name = ""
         \/ last'.args.conclusion = "")
       => (~last'.r.ok /\ fs' = fs)]_vars

C7_Witness ==
  /\ last.op = "merge" /\ ~last.r.ok
  /\ last.args.outcome = "bogus"
  /\ getActiveBranch(fs) = last.args.branch_name

(* C8: the registry names exactly one active branch, and it is 'main' or a  *)
(* branch that a successful branch() created and no merge has merged since. *)
C8_OneActive ==
  /\ Cardinality({i \in 1..Len(fs.files[RegistryPath]) :
                    fs.files[RegistryPath][i] = Txt("## Active Branch")}) = 1
  /\ ActiveIdx(fs.files[RegistryPath]) # 0
  /\ \/ getActiveBranch(fs) = "main"
     \/ (getActiveBranch(fs) \in hist.created \ hist.merged)

C8_Witness ==
  /\ getActiveBranch(fs) # "main"
  /\ hist.merged # {}

(* C9 as stated: once the directory of name exists, branch(name, ...) with  *)
(* its fields filled in returns the 'already exists' error and changes      *)
(* nothing.                                                                 *)
C9_Original ==
  [][(/\ last'.op = "branch"
      /\ last'.args.purpose # <<>>
      /\ last'.args.name \in fs.dirs)
       => (~last'.r.ok /\ last'.r.err = "already exists" /\ fs' = fs)]_vars

(* C9 amended: branch(name, ...) succeeds at most once; once the directory  *)
(* of name exists, branch(name, ...) with its fields filled in returns an   *)
(* error ('already exists' on main, 'must be on main' on any other branch)  *)
(* and changes nothing.                                                     *)
C9_AtMostOnce ==
  [][(last'.op = "branch" /\ last'.args.purpose # <<>>) =>
       /\ last'.r.ok => last'.args.name \notin (hist.created \cup fs.dirs)
       /\ last'.args.name \in fs.dirs =>
            /\ ~last'.r.ok
            /\ fs' = fs
            /\ last'.r.err = (IF getActiveBranch(fs) = "main"
                              THEN "already exists" ELSE "must be on main")]_vars

C9_Witness ==
  /\ last.op = "branch" /\ last.r.err = "already exists"
  /\ last.args.name \in hist.merged
  /\ RowsOf(fs, last.args.name)[1].b = "merged"

(* C10: no operation removes a row of the registry's history table or puts  *)
(* a row back to 'active' (a status only goes from 'active' to 'merged'),   *)
(* and every created branch has exactly one row.                            *)
C10_OneRow == \A n \in hist.created : Len(RowsOf(fs, n)) = 1

C10_Step ==
  LET old == HistoryRows(fs)
      new == HistoryRows(fs')
  IN  /\ Len(new) >= Len(old)
      /\ \A i \in 1..Len(old) :
           /\ new[i].a = old[i].a
           /\ \/ new[i].b = old[i].b
              \/ (old[i].b = "active" /\ new[i].b = "merged")

C10_HistoryRows == []C10_OneRow /\ [][C10_Step]_vars

C10_Witness ==
  /\ Len(HistoryRows(fs)) = 2
  /\ HistoryRows(fs)[1].b = "merged"
  /\ HistoryRows(fs)[2].b = "active"

----------------------------------------------------------------------------
(* src/src/migrate.ts: the v1 -> v2 migration, one file-system call per     *)
(* step.  In the specification SpecMigrate the variables hold               *)
(*   fs   : the files and the branch directories under the context root     *)
(*   last : the position of the running migrateV1ToV2 (pc, the list of      *)
(*          directory entries still to convert) and the last operation      *)
(*   hist : the commit blocks of the root and main journals before the      *)
(*          first migration, the runs started, whether one has returned     *)

MaxRuns == 2

RootCommitsPath == <<"commits.md">>

RootLogPath == <<"log.md">>

MIGRATION_MARKER == <<".migrated-v2">>

RootCommitsBackup == <<"commits.md.v1-backup">>

RootLogBackup == <<"log.md.v1-backup">>

BranchFile(name) == <<"branches", name \o ".md">>

BranchFileBackup(name) == <<"branches", name \o ".md.v1-backup">>

renameSync(f, from, to) ==
  [f EXCEPT !.files =
     [p \in (DOMAIN f.files \ {from}) \cup {to} |->
        IF p = to THEN f.files[from] ELSE f.files[p]]]

needsMigration_NoMarker(f) == existsSync(f, RootCommitsPath)

needsMigration(f) ==
  IF existsSync(f, MIGRATION_MARKER) THEN FALSE
  ELSE existsSync(f, RootCommitsPath)

(* String.prototype.trim on a run of lines: the empty lines at both ends go *)
RECURSIVE TrimStart(_)
TrimStart(s) ==
  IF s = <<>> THEN <<>>
  ELSE IF s[1] = Blank THEN TrimStart(Drop(s, 1)) ELSE s

Trim(s) == TrimStart(TrimEnd(s))

(* new RegExp(`## ${heading}\\n([\\s\\S]*?)(?=\\n## |$)`): the lines after  *)
(* the heading up to the next line that begins with "## ", trimmed; <<>>    *)
(* stands for null.                                                         *)
extractSection(content, heading) ==
  LET i == Least({q \in 1..Len(content) : content[q] = Txt("## " \o heading)})
      j == Least({q \in (i + 1)..Len(content) :
                    content[q].k = "txt" /\ content[q].a \in H2Texts})
  IN  IF i = 0 THEN <<>>
      ELSE Trim(SubSeq(content, i + 1, IF j = 0 THEN Len(content) ELSE j - 1))

MigratedText == <<Txt("(migrated from v1)")>>

OrMigrated(section) == IF section = <<>> THEN MigratedText ELSE section

convertBranchHeader(content, branchName) ==
  LET purpose == OrMigrated(extractSection(content, "Purpose"))
      hypothesis == OrMigrated(extractSection(content, "Hypothesis"))
      findings == extractSection(content, "Findings")
      conclusion == extractSection(content, "Conclusion")
  IN  <<Txt("# Branch: " \o branchName), Blank, Txt("## Purpose")>> \o purpose
        \o <<Blank, Txt("## Hypothesis")>> \o hypothesis \o <<Blank>>
        \o (IF findings # <<>>
            THEN <<Txt("## Findings")>> \o findings \o <<Blank>> ELSE <<>>)
        \o (IF conclusion # <<>> /\ ~InSeq(PlaceholderLine, conclusion)
            THEN <<ConclusionHeading>> \o conclusion \o <<Blank>>
            ELSE <<ConclusionHeading, PlaceholderLine, Blank>>)
        \o <<Txt("---"), Blank>>

(* readdirSync(branchesDir) filtered as the loop filters it: the flat       *)
(* <name>.md files, in directory order.                                     *)
V1Names == <<"b1", "b2">>

BranchEntries(f) ==
  SelectSeq(V1Names, LAMBDA n : existsSync(f, BranchFile(n)))

(* One step of migrateV1ToV2 from position pc with the entries todo still   *)
(* to visit: the file system and the position after the step.               *)
MigrateStep(f, pc, todo) ==
  LET root == RootCommitsPath
      main == getCommitsPath("main")
      rlog == RootLogPath
      mlog == getLogPath("main")
      at(g, to, td) == [f |-> g, pc |-> to, todo |-> td]
      loop(g, td) == IF td = <<>> THEN at(g, "marker", td)
                     ELSE IF td[1] \in g.dirs THEN at(g, "loop", Drop(td, 1))
                     ELSE at(g, "mkdir", td)
  IN  CASE pc = "start"   -> at(mkdirSync(f, "main"), "commits", todo)
        [] pc = "commits" ->
             IF existsSync(f, root) /\ ~existsSync(f, main)
             THEN at(renameSync(f, root, main), "log", todo)
             ELSE IF existsSync(f, root)
             THEN at(writeFile(f, main, f.files[main] \o <<Blank>> \o f.files[root]),
                     "backup", todo)
             ELSE at(f, "log", todo)
        [] pc = "backup"  -> at(renameSync(f, root, RootCommitsBackup), "log", todo)
        [] pc = "log"     ->
             IF existsSync(f, rlog) /\ ~existsSync(f, mlog)
             THEN at(renameSync(f, rlog, mlog), "mainlog", todo)
             ELSE IF existsSync(f, rlog)
             THEN at(renameSync(f, rlog, RootLogBackup), "mainlog", todo)
             ELSE at(f, "mainlog", todo)
        [] pc = "mainlog" ->
             at(IF existsSync(f, mlog) THEN f ELSE writeFile(f, mlog, <<>>),
                "loop", BranchEntries(f))
        [] pc = "loop"    -> loop(f, todo)
        [] pc = "mkdir"   -> at(mkdirSync(f, todo[1]), "header", todo)
        [] pc = "header"  ->
             at(writeFile(f, getCommitsPath(todo[1]),
                  convertBranchHeader(f.files[BranchFile(todo[1])], todo[1])
                    \o <<JournalAnchor, Blank>>),
                "branchlog", todo)
        [] pc = "branchlog" -> at(writeFile(f, getLogPath(todo[1]), <<>>), "rename", todo)
        [] pc = "rename"  ->
             at(renameSync(f, BranchFile(todo[1]), BranchFileBackup(todo[1])),
                "loop", Drop(todo, 1))
        [] pc = "marker"  -> at(writeFile(f, MIGRATION_MARKER, <<Txt(Now)>>), "idle", <<>>)

(* src/src/bootstrap.ts: ensureContextStructure of the v1 layout           *)
ensureContextStructureV1(f) ==
  ensureFile(
    ensureFile(
      ensureFile(
        ensureFile(f, MainMdPath, MAIN_MD_TEMPLATE),
        RootCommitsPath, <<JournalAnchor, Blank>>),
      RootLogPath, <<>>),
    RegistryPath, REGISTRY_TEMPLATE)

(* The legacy layouts migration starts from.  Absent marks a file that does *)
(* not exist.                                                               *)
Absent == <<Txt("<absent>")>>

V1Block(id, title) == Entry(id, "main", title, "w1", "y1", "f1", "n1")

RootJournals ==
  {COMMITS_TEMPLATE,
   COMMITS_TEMPLATE \o V1Block(<<0, 0, 1>>, "r1"),
   COMMITS_TEMPLATE \o V1Block(<<0, 0, 2>>, "r2") \o V1Block(<<0, 0, 1>>, "r1")}

MainJournals ==
  {Absent, COMMITS_TEMPLATE, COMMITS_TEMPLATE \o V1Block(<<0, 0, 1>>, "m1")}

LogLine == L("txt", <<>>, "| 2026-02-26 10:00 | edit | f1 | OK |", "", "")

Logs == {Absent, <<LogLine>>}

(* A line that a hook of the per-branch layout wrote to main's log.         *)
MainLogLine == L("txt", <<>>, "| 2026-02-26 10:05 | bash | ls | OK |", "", "")

MainLogs == {Absent, <<MainLogLine>>}

V1BranchFile(name, findings, conclusion) ==
  <<Txt("# Branch: " \o name), Blank, Txt("## Purpose"), Txt("p1"), Blank,
    Txt("## Hypothesis"), Txt("h1"), Blank, Txt("## Findings")>> \o findings
    \o <<Blank, ConclusionHeading>> \o conclusion

V1BranchFiles(name) ==
  {Absent,
   V1BranchFile(name, <<>>, <<PlaceholderLine>>),
   V1BranchFile(name, <<Txt("fd1")>>, <<Txt("done")>>)}

File(path, content) == IF content = Absent THEN <<>> ELSE (path :> content)

V1Layout(rc, mc, rl, ml, b1, b2) ==
  [files |-> File(MainMdPath, MAIN_MD_TEMPLATE) @@ File(RegistryPath, REGISTRY_TEMPLATE)
               @@ File(RootCommitsPath, rc) @@ File(getCommitsPath("main"), mc)
               @@ File(RootLogPath, rl) @@ File(getLogPath("main"), ml)
               @@ File(BranchFile("b1"), b1) @@ File(BranchFile("b2"), b2),
   dirs  |-> IF mc = Absent /\ ml = Absent THEN {} ELSE {"main"}]

BlockTitles(f, path) ==
  IF existsSync(f, path)
  THEN {f.files[path][i].b : i \in {q \in 1..Len(f.files[path]) : f.files[path][q].k = "hdr"}}
  ELSE {}

Idle(op) == [op |-> op, pc |-> "idle", todo |-> <<>>]

(* The lines of the legacy files: the root journal, the root log and the    *)
(* flat per-branch files.                                                   *)
LegacyPaths == {RootCommitsPath, RootLogPath, BranchFile("b1"), BranchFile("b2")}

LinesIn(f, paths) ==
  UNION {{f.files[p][q] : q \in 1..Len(f.files[p])} : p \in paths \cap DOMAIN f.files}

MigInit ==
  /\ \E rc \in RootJournals, mc \in MainJournals, rl \in Logs, ml \in MainLogs,
        b1 \in V1BranchFiles("b1"), b2 \in {Absent, V1BranchFile("b2", <<>>, <<>>)} :
       fs = V1Layout(rc, mc, rl, ml, b1, b2)
  /\ last = Idle("none")
  /\ hist = [before   |-> BlockTitles(fs, RootCommitsPath)
                            \cup BlockTitles(fs, getCommitsPath("main")),
             legacy   |-> LinesIn(fs, LegacyPaths),
             runs     |-> 0,
             returned |-> FALSE]

(* migrateV1ToV2 is entered: by dispatch when needsMigration, or called     *)
(* again directly.                                                          *)
MigrateStart ==
  /\ last.pc = "idle"
  /\ hist.runs < MaxRuns
  /\ last' = [op |-> "migrate", pc |-> "start", todo |-> <<>>]
  /\ hist' = [hist EXCEPT !.runs = @ + 1]
  /\ UNCHANGED fs

MigrateRun ==
  /\ last.pc # "idle"
  /\ LET s == MigrateStep(fs, last.pc, last.todo)
     IN  /\ fs' = s.f
         /\ last' = [op |-> "migrate", pc |-> s.pc, todo |-> s.todo]
         /\ hist' = [hist EXCEPT !.returned = @ \/ s.pc = "idle"]

(* The process dies between two file-system calls of a running migration.   *)
MigrateCrash ==
  /\ last.pc # "idle"
  /\ last' = Idle("crash")
  /\ UNCHANGED <<fs, hist>>

(* A v1 hook (src/src/hooks/post-tool-use.ts, main) bootstraps the v1       *)
(* layout again.                                                            *)
BootstrapV1 ==
  /\ last.pc = "idle"
  /\ fs' = ensureContextStructureV1(fs)
  /\ fs' # fs
  /\ last' = Idle("bootstrap-v1")
  /\ UNCHANGED hist

(* dispatch('gcc_commit') on a context that needs no migration: bootstrap,  *)
(* then the handler.                                                        *)
MigCommit ==
  /\ last.pc = "idle"
  /\ ~needsMigration(fs)
  /\ "t1" \notin BlockTitles(fs, getCommitsPath("main"))
  /\ fs' = handleCommit(ensureContextStructure(fs), CommitArgs("t1", "w1", <<"f1">>)).f
  /\ last' = Idle("commit")
  /\ UNCHANGED hist

MigNext == MigrateStart \/ MigrateRun \/ MigrateCrash \/ BootstrapV1 \/ MigCommit

SpecMigrate == MigInit /\ [][MigNext]_vars

(* The number of commit blocks of the main journal that carry the title.    *)
CountInMain(f, title) ==
  LET content == f.files[getCommitsPath("main")]
  IN  Cardinality({q \in 1..Len(content) :
                     content[q].k = "hdr" /\ content[q].b = title})

(* C11: once a run of migrate() has returned, also a run that follows an    *)
(* interrupted run or a completed one, main's journal holds every commit    *)
(* block that existed before migration exactly once.                        *)
C11_MigrateIdempotent ==
  (hist.returned /\ last.pc = "idle" /\ last.op = "migrate") =>
    /\ existsSync(fs, getCommitsPath("main"))
    /\ \A t \in hist.before : CountInMain(fs, t) = 1

(* C12: once migrate() has returned, needsMigration() is false in every     *)
(* later state, whatever operations follow.                                 *)
C12_MigratedForGood == hist.returned => ~needsMigration(fs)

C12_Witness ==
  /\ hist.returned
  /\ last.op = "bootstrap-v1"
  /\ existsSync(fs, RootCommitsPath)

----------------------------------------------------------------------------
(* Storage faults and the order of a handler's writes.  During one tool     *)
(* call the writes to one kind of document may fail: fault is "none",       *)
(* "migrate" (the first file-system call of migrateV1ToV2 throws) or the    *)
(* kind of document whose writes throw: "main.md", "registry", "journal"    *)
(* (a commits.md), "log" (a log.md).  A helper with a try/catch around its  *)
(* write swallows the failure, the others let it escape to the handler.     *)

Faults == {"none", "migrate", "main.md", "registry", "journal", "log"}

(* The write of a helper: g is the file system the write would leave.       *)
Attempt(f, g, kind, fault, throws) ==
  IF fault = kind THEN [f |-> f, threw |-> throws] ELSE [f |-> g, threw |-> FALSE]

(* src/unnamed/part_001: ensureContextStructure stops at the first write    *)
(* that throws and returns false.                                           *)
ensureFileF(s, path, template, kind, fault) ==
  IF s.threw \/ existsSync(s.f, path) THEN s
  ELSE Attempt(s.f, writeFile(s.f, path, template), kind, fault, TRUE)

ensureContextStructureF(f, fault) ==
  ensureFileF(
    ensureFileF(
      ensureFileF(
        ensureFileF([f |-> mkdirSync(f, "main"), threw |-> FALSE],
                    MainMdPath, MAIN_MD_TEMPLATE, "main.md", fault),
        RegistryPath, REGISTRY_TEMPLATE, "registry", fault),
      getCommitsPath("main"), COMMITS_TEMPLATE, "journal", fault),
    getLogPath("main"), <<>>, "log", fault)

(* src/unnamed/part_001: ensureBranchDir, likewise; its caller ignores the  *)
(* false it returns.                                                        *)
ensureBranchDirF(f, branch, purpose, hypothesis, fault) ==
  ensureFileF(
    ensureFileF([f |-> mkdirSync(f, branch), threw |-> FALSE],
                getCommitsPath(branch), BranchHeader(branch, purpose, hypothesis),
                "journal", fault),
    getLogPath(branch), <<>>, "log", fault)

MergeEntry(bn, args, commitId) ==
  Entry(commitId, "main", MergeTitle(bn, args.outcome),
        "Merged exploration branch '" \o bn \o "'. " \o args.conclusion,
        "Consolidate findings from exploration.",
        ".gcc/context/branches/" \o bn \o "/",
        "Continue on main with findings applied.")

(* The number of helper calls that write, per tool, and the k-th of them in *)
(* the order of the handler's code.  id is the identifier the handler got   *)
(* from getNextCommitId, branch the active branch it read.                  *)
Steps(tool) ==
  CASE tool = "gcc_commit" -> 3 [] tool = "gcc_branch" -> 5 [] tool = "gcc_merge" -> 8

Step(tool, k, f, args, id, branch, fault) ==
  CASE tool = "gcc_commit" /\ k = 1 ->
         Attempt(f, prependCommit(f, branch,
                      Entry(id, branch, args.title, args.what, args.why,
                            Join(args.files_changed), args.next_step)),
                 "journal", fault, TRUE)
    [] tool = "gcc_commit" /\ k = 2 ->
         Attempt(f, updateMainMilestones(f, Today, branch, args.title,
                                           loadConfig(f).milestonesKept),
                 "main.md", fault, FALSE)
    [] tool = "gcc_commit" /\ k = 3 ->
         Attempt(f, appendLog(f, branch,
                      Log(Now, "COMMIT ", IdStr(id) \o ": " \o args.title),
                      LogMaxLinesDefault),
                 "log", fault, FALSE)
    [] tool = "gcc_branch" /\ k = 1 ->
         [f |-> ensureBranchDirF(f, args.name, args.purpose, args.hypothesis, fault).f,
          threw |-> FALSE]
    [] tool = "gcc_branch" /\ k = 2 ->
         Attempt(f, updateRegistryActiveBranch(f, args.name), "registry", fault,
                 existsSync(f, RegistryPath))
    [] tool = "gcc_branch" /\ k = 3 ->
         Attempt(f, addBranchToRegistry(f, args.name, Today), "registry", fault,
                 existsSync(f, RegistryPath))
    [] tool = "gcc_branch" /\ k = 4 ->
         Attempt(f, addBranchToMainMd(f, args.name), "main.md", fault, FALSE)
    [] tool = "gcc_branch" /\ k = 5 ->
         Attempt(f, appendLog(f, args.name,
                      Log(Today, "BRANCH created: ", args.name), LogMaxLinesDefault),
                 "log", fault, FALSE)
    [] tool = "gcc_merge" /\ k = 1 ->
         Attempt(f, updateBranchConclusion(f, args.branch_name, args.outcome,
                                           args.conclusion),
                 "journal", fault, existsSync(f, getCommitsPath(args.branch_name)))
    [] tool = "gcc_merge" /\ k = 2 ->
         Attempt(f, prependCommit(f, "main", MergeEntry(args.branch_name, args, id)),
                 "journal", fault, TRUE)
    [] tool = "gcc_merge" /\ k = 3 ->
         Attempt(f, updateMainMilestones(f, Today, "main",
                      MergeTitle(args.branch_name, args.outcome),
                      loadConfig(f).milestonesKept),
                 "main.md", fault, FALSE)
    [] tool = "gcc_merge" /\ k = 4 ->
         Attempt(f, updateRegistryActiveBranch(f, "main"), "registry", fault,
                 existsSync(f, RegistryPath))
    [] tool = "gcc_merge" /\ k = 5 ->
         Attempt(f, updateRegistryBranchStatus(f, args.branch_name, "merged"),
                 "registry", fault, existsSync(f, RegistryPath))
    [] tool = "gcc_merge" /\ k = 6 ->
         Attempt(f, removeBranchFromMainMd(f, args.branch_name), "main.md", fault, FALSE)
    [] tool = "gcc_merge" /\ k = 7 ->
         Attempt(f, appendLog(f, args.branch_name,
                      Log(Now, "MERGE ", args.outcome \o ": " \o args.conclusion),
                      LogMaxLinesDefault),
                 "log", fault, FALSE)
    [] tool = "gcc_merge" /\ k = 8 ->
         Attempt(f, appendLog(f, "main",
                      Log(Now, "MERGE ",
                          IdStr(id) \o ": " \o args.branch_name
                            \o " (" \o args.outcome \o ")"),
                      LogMaxLinesDefault),
                 "log", fault, FALSE)

(* The writes k, k + 1, ... of a handler, up to the first that throws.      *)
The(S) == CHOOSE x \in S : TRUE

RECURSIVE RunSteps(_, _, _, _, _, _, _)
RunSteps(tool, k, f, args, id, branch, fault) ==
  IF k > Steps(tool) THEN [f |-> f, threw |-> FALSE]
  ELSE The({IF s.threw THEN s
            ELSE RunSteps(tool, k + 1, s.f, args, id, branch, fault) :
              s \in {Step(tool, k, f, args, id, branch, fault)}})

----------------------------------------------------------------------------
(* src/src/hooks/post-tool-use.ts: dispatch.  In the specification          *)
(* SpecDispatch the variables hold                                          *)
(*   fs   : the context root                                                *)
(*   last : the latest dispatch call: tool, args, the fault of the call,    *)
(*          pc (0 when the call has returned, else the next write of a      *)
(*          running gcc_merge), the result r, what was raised inside the    *)
(*          call, and thrown: whether dispatch let a fault out              *)
(*   hist : the number of calls that met a storage fault                    *)

MaxFaults == 1

RECURSIVE MigrateFrom(_, _, _)
MigrateFrom(f, pc, todo) ==
  IF pc = "idle" THEN f
  ELSE The({MigrateFrom(s.f, s.pc, s.todo) : s \in {MigrateStep(f, pc, todo)}})

migrateV1ToV2(f) == MigrateFrom(f, "start", <<>>)

(* dispatch, lines 70-76: migration if needed, then bootstrap.  raised      *)
(* names the part in which a fault was raised, threw whether it escaped.    *)
Prologue(f, fault) ==
  IF needsMigration(f) /\ fault = "migrate"
  THEN [f |-> f, threw |-> TRUE, raised |-> "migrate"]
  ELSE The({[f |-> e.f, threw |-> FALSE,
              raised |-> IF e.threw THEN "bootstrap" ELSE "none"] :
              e \in {ensureContextStructureF(
                       IF needsMigration(f) THEN migrateV1ToV2(f) ELSE f, fault)}})

Tools == {"gcc_commit", "gcc_branch", "gcc_merge"}

(* What a handler reads before its first write: the error of its guards     *)
(* ("" when they pass), the branch it works on, the identifier it hands out *)
HandlerStart(tool, f, args) ==
  CASE tool = "gcc_commit" ->
         [err    |-> handleCommit(f, args).r.err,
          branch |-> getActiveBranch(f),
          id     |-> getNextCommitId(f, getActiveBranch(f))]
    [] tool = "gcc_branch" ->
         [err |-> branchError(f, args), branch |-> args.name, id |-> <<>>]
    [] tool = "gcc_merge" ->
         [err |-> mergeError(f, args), branch |-> args.branch_name,
          id |-> getNextCommitId(f, "main")]
    [] OTHER -> [err |-> "unknown tool", branch |-> "", id |-> <<>>]

Returned(f, tool, args, fault, r, raised, thrown) ==
  [f |-> f,
   call |-> [op |-> tool, args |-> args, fault |-> fault, pc |-> 0, id |-> r.id,
             branch |-> r.branch, r |-> r, raised |-> raised, thrown |-> thrown]]

(* dispatch, lines 100-105: the catch block turns a fault into a result.    *)
catch_Rethrow(f, tool, args, fault, raised) ==
  Returned(f, tool, args, fault, Err(""), raised, TRUE)

catch(f, tool, args, fault, raised) ==
  Returned(f, tool, args, fault, Err("GCC Error"), raised, FALSE)

(* dispatch up to the handler's first write.  A gcc_merge whose guards pass *)
(* is left running at its first write (pc = 1).                             *)
Handled(p, h, tool, args, fault) ==
  IF h.err # "" THEN Returned(p.f, tool, args, fault, Err(h.err), p.raised, FALSE)
  ELSE IF tool = "gcc_merge"
  THEN [f |-> p.f,
        call |-> [op |-> tool, args |-> args, fault |-> fault, pc |-> 1,
                  id |-> h.id, branch |-> h.branch, r |-> Err("running"),
                  raised |-> p.raised, thrown |-> FALSE]]
  ELSE The({IF w.threw THEN catch(w.f, tool, args, fault, "handler")
            ELSE Returned(w.f, tool, args, fault, Ok(h.id, h.branch), p.raised, FALSE) :
              w \in {RunSteps(tool, 1, p.f, args, h.id, h.branch, fault)}})

dispatch(f, tool, args, fault) ==
  The({IF p.threw THEN catch(p.f, tool, args, fault, p.raised)
       ELSE The({Handled(p, h, tool, args, fault) :
                   h \in {HandlerStart(tool, p.f, args)}}) :
         p \in {Prologue(f, fault)}})

(* The next write of the running gcc_merge.                                 *)
mergeStep(f, c) ==
  The({IF s.threw THEN catch(s.f, c.op, c.args, c.fault, "handler")
       ELSE IF c.pc = Steps("gcc_merge")
       THEN Returned(s.f, c.op, c.args, c.fault, Ok(c.id, c.branch), c.raised, FALSE)
       ELSE [f |-> s.f, call |-> [c EXCEPT !.pc = @ + 1]] :
         s \in {Step("gcc_merge", c.pc, f, c.args, c.id, c.branch, c.fault)}})

DispatchRoots ==
  {EmptyFs, ensureContextStructure(EmptyFs),
   V1Layout(COMMITS_TEMPLATE \o V1Block(<<0, 0, 1>>, "r1"), Absent, Absent, Absent,
            Absent, Absent)}

NoDispatch ==
  [op |-> "none", args |-> <<>>, fault |-> "none", pc |-> 0, id |-> <<>>,
   branch |-> "", r |-> Err(""), raised |-> "none", thrown |-> FALSE]

DispatchInit ==
  /\ fs \in DispatchRoots
  /\ last = NoDispatch
  /\ hist = [faults |-> 0]

(* The faults a call can meet: none once MaxFaults calls have met one;      *)
(* during a migration only the migration's own fault.                       *)
FaultsOf(f) ==
  IF hist.faults >= MaxFaults THEN {"none"}
  ELSE IF needsMigration(f) THEN {"none", "migrate"}
  ELSE Faults \ {"migrate"}

Dispatched(out) ==
  /\ fs' = out.f
  /\ last' = out.call
  /\ hist' = [hist EXCEPT !.faults = @ + (IF out.call.fault = "none" THEN 0 ELSE 1)]

DispatchCommit ==
  /\ last.pc = 0
  /\ UserCommits(fs) < MaxCommits
  /\ \E args \in {CommitArgs("t1", "w1", <<"f1">>), CommitArgs("", "w1", <<"f1">>)},
        fault \in FaultsOf(fs) :
       \E out \in {dispatch(fs, "gcc_commit", args, fault)} : Dispatched(out)

DispatchBranch ==
  /\ last.pc = 0
  /\ \E args \in {BranchArgs("b1", <<Txt("p1")>>, <<Txt("h1")>>),
                  BranchArgs("Bad_Name", <<Txt("p1")>>, <<Txt("h1")>>)},
        fault \in FaultsOf(fs) :
       \E out \in {dispatch(fs, "gcc_branch", args, fault)} : Dispatched(out)

DispatchMerge ==
  /\ last.pc = 0
  /\ \E args \in {MergeArgs("b1", "success", "c1"), MergeArgs("b1", "bogus", "c1"),
                  MergeArgs("main", "success", "c1")},
        fault \in FaultsOf(fs) :
       \E out \in {dispatch(fs, "gcc_merge", args, fault)} : Dispatched(out)

DispatchUnknown ==
  /\ last.pc = 0
  /\ last.op # "gcc_bogus"
  /\ \E out \in {dispatch(fs, "gcc_bogus", <<>>, "none")} : Dispatched(out)

MergeStep ==
  /\ last.pc > 0
  /\ \E out \in {mergeStep(fs, last)} :
       /\ fs' = out.f
       /\ last' = out.call
       /\ UNCHANGED hist

DispatchNext ==
  DispatchCommit \/ DispatchBranch \/ DispatchMerge \/ DispatchUnknown \/ MergeStep

SpecDispatch == DispatchInit /\ [][DispatchNext]_vars

----------------------------------------------------------------------------
RowMerged(f, b) ==
  /\ existsSync(f, RegistryPath)
  /\ \E i \in 1..Len(RowsOf(f, b)) : RowsOf(f, b)[i].b = "merged"

MergeCommitInMain(f, b, outcome) ==
  MergeTitle(b, outcome) \in BlockTitles(f, getCommitsPath("main"))

(* C13: when a merge fails because a document write fails, the registry row *)
(* of the branch says 'merged' exactly when main's journal holds the merge  *)
(* commit.                                                                  *)
C13_MergeAllOrNothing ==
  (last.op = "gcc_merge" /\ last.pc = 0 /\ last.raised = "handler") =>
    (RowMerged(fs, last.args.branch_name)
       <=> MergeCommitInMain(fs, last.args.branch_name, last.args.outcome))

(* C14: within one merge, the flip of the branch's registry status to       *)
(* 'merged' is the last document write: once the row says 'merged', the     *)
(* running merge writes no document any more.                               *)
C14_StatusFlipLast ==
  [][(last.op = "gcc_merge" /\ last.pc > 0 /\ RowMerged(fs, last.args.branch_name))
       => fs' = fs]_vars

ValidationErrors ==
  {"required", "kebab-case", "must be on main", "already exists",
   "cannot merge main", "outcome", "must be on branch"}

(* C15: a tool call made through dispatch that ends in a validation error   *)
(* has created or modified no document under the context root.              *)
C15_ErrorTouchesNothing ==
  [][(last.pc = 0 /\ last'.op \in Tools /\ last'.pc = 0
        /\ last'.fault = "none" /\ last'.r.err \in ValidationErrors)
       => fs' = fs]_vars

(* C16 as stated: dispatch never lets a fault out, and for any failure      *)
(* raised inside migration, bootstrap or a handler the text of the result   *)
(* it returns reports the error.                                            *)
C16_Original ==
  /\ ~last.thrown
  /\ (last.pc = 0 /\ last.raised # "none") => last.r.err = "GCC Error"

(* C16 amended: dispatch never lets a fault out; a failure that escapes     *)
(* migration or a handler is returned as a 'GCC Error' result; a failure    *)
(* inside bootstrap is swallowed there and the handler's result returned.   *)
C16_NoPropagation ==
  /\ ~last.thrown
  /\ (last.pc = 0 /\ last.raised \in {"migrate", "handler"}) =>
       (~last.r.ok /\ last.r.err = "GCC Error")
  /\ (last.pc = 0 /\ last.raised = "bootstrap") =>
       last.r.err \in ValidationErrors \cup {"", "GCC Error"}

C16_Witness ==
  /\ last.op = "gcc_merge" /\ last.pc = 0
  /\ last.raised = "handler"
  /\ last.r.err = "GCC Error"
  /\ MergeCommitInMain(fs, last.args.branch_name, last.args.outcome)

----------------------------------------------------------------------------
(* The Recent Milestones list under a configured cap.  In the specification *)
(* SpecMilestones the variables hold                                        *)
(*   fs   : the context root and .gcc/config.json                           *)
(*   last : the latest call and its result                                  *)
(*   hist : the milestone bullets added so far, newest first                *)

MaxAdded == 3

Caps == {-1, 0, 1, 2}

MsTitles == {"t1", "t2"}

MsInit ==
  /\ \E cap \in Caps \cup {MilestonesKept} :
       fs = IF cap = MilestonesKept THEN ensureContextStructure(EmptyFs)
            ELSE writeFile(ensureContextStructure(EmptyFs), ConfigPath, ConfigFile(cap))
  /\ last = NoCall
  /\ hist = [added |-> <<>>]

MsCall(op, args, out, title) ==
  /\ fs' = out.f
  /\ last' = [op |-> op, args |-> args, r |-> out.r]
  /\ hist' = IF out.r.ok /\ op # "branch"
             THEN [added |-> <<Ms(Today, getActiveBranch(out.f), title)>> \o hist.added]
             ELSE hist

MsCommit ==
  /\ Len(hist.added) < MaxAdded
  /\ \E title \in MsTitles :
       \E out \in {handleCommit(fs, CommitArgs(title, "w1", <<"f1">>))} :
         MsCall("commit", CommitArgs(title, "w1", <<"f1">>), out, title)

MsBranch ==
  \E out \in {handleBranch(fs, BranchArgs("b1", <<Txt("p1")>>, <<Txt("h1")>>))} :
    MsCall("branch", BranchArgs("b1", <<Txt("p1")>>, <<Txt("h1")>>), out, "")

MsMerge ==
  /\ Len(hist.added) < MaxAdded
  /\ \E out \in {handleMerge(fs, MergeArgs("b1", "success", "c1"))} :
       MsCall("merge", MergeArgs("b1", "success", "c1"), out,
              MergeTitle("b1", "success"))

MsNext == MsCommit \/ MsBranch \/ MsMerge

SpecMilestones == MsInit /\ [][MsNext]_vars

(* The bullets of the Recent Milestones section of main.md.                 *)
Milestones(f) ==
  LET content == f.files[MainMdPath]
      i == Least({q \in 1..Len(content) : IsMilestonesHeading(content[q])})
  IN  SelectSeq(SubSeq(content, i, SectionEnd(content, i) - 1),
                LAMBDA l : l.k = "ms")

(* C17: for every configured cap, after every successful commit or merge    *)
(* the Recent Milestones list has at most cap entries, its first entry is   *)
(* the milestone just added, and the list is the newest milestones added so *)
(* far, newest first.                                                       *)
C17_MilestoneCap ==
  (last.op \in {"commit", "merge"} /\ last.r.ok) =>
    LET list == Milestones(fs)
    IN  /\ Len(list) <= loadConfig(fs).milestonesKept
        /\ list # <<>>
        /\ list[1] = hist.added[1]
        /\ list = Take(hist.added, Len(list))

----------------------------------------------------------------------------
(* Journals keep what was written to them                                   *)

JournalPaths(f) == {p \in DOMAIN f.files : Len(p) = 3 /\ p[3] = "commits.md"}

(* The text of a journal from its first commit block to its end.            *)
CommitText(content) ==
  LET i == Least({q \in 1..Len(content) : IsHdr(content[q])})
  IN  IF i = 0 THEN <<>> ELSE Drop(content, i - 1)

IsSuffix(s, t) == Len(s) <= Len(t) /\ Drop(t, Len(t) - Len(s)) = s

(* new is old with the placeholder under a "## Conclusion" heading of the   *)
(* header replaced by the outcome and the conclusion.                       *)
ConclusionFilled(old, new) ==
  \E i \in 1..(Len(old) - Len(CommitText(old)) - 1) :
    /\ old[i] = ConclusionHeading
    /\ old[i + 1] = PlaceholderLine
    /\ Len(new) = Len(old) + 1
    /\ Take(new, i) = Take(old, i)
    /\ new[i + 1].k = "fld" /\ new[i + 1].a = "Outcome"
    /\ Drop(new, i + 2) = Drop(old, i + 1)

C18_Step ==
  \A p \in JournalPaths(fs) :
    /\ p \in JournalPaths(fs')
    /\ LET old == fs.files[p]
           new == fs'.files[p]
           head == Len(old) - Len(CommitText(old))
       IN  /\ IsSuffix(CommitText(old), new)
           /\ \/ Take(new, head) = Take(old, head)
              \/ /\ last'.op = "merge"
                 /\ p = getCommitsPath(last'.args.branch_name)
                 /\ ConclusionFilled(old, new)

(* C18: every commit block of a journal stays in it, byte for byte and in   *)
(* the same order, after any later commit, branch or merge; the only change *)
(* to text that is already in a journal is the conclusion field of a branch *)
(* header, filled in by merge.                                              *)
C18_BlocksStay == [][C18_Step]_vars

C18_Witness ==
  /\ last.op = "merge" /\ last.r.ok
  /\ Len(Blocks(fs, "main")) >= 2
  /\ Blocks(fs, last.args.branch_name) # <<>>
  /\ ~InSeq(PlaceholderLine, fs.files[getCommitsPath(last.args.branch_name)])

----------------------------------------------------------------------------
(* Where prependCommit puts an entry in a branch journal.  In the           *)
(* specification SpecJournal the variables hold                             *)
(*   fs   : the context root with the journal of branch "b1"                *)
(*   last : the latest step                                                 *)
(*   hist : the header texts the journal was created with and the entries   *)
(*          given to prependCommit so far, newest first                     *)

MaxEntries == 3

HeaderTexts == {<<Txt("p1")>>, <<MarkerText>>, <<AnchorQuote>>}

JournalInit ==
  /\ fs = ensureContextStructure(EmptyFs)
  /\ last = [op |-> "none"]
  /\ hist = [purpose |-> <<>>, hypothesis |-> <<>>, entries |-> <<>>]

JournalCreate ==
  /\ ~existsSync(fs, getCommitsPath("b1"))
  /\ \E purpose \in HeaderTexts, hypothesis \in HeaderTexts :
       /\ fs' = ensureBranchDir(fs, "b1", purpose, hypothesis)
       /\ last' = [op |-> "ensureBranchDir"]
       /\ hist' = [hist EXCEPT !.purpose = purpose, !.hypothesis = hypothesis]

JournalPrepend ==
  /\ existsSync(fs, getCommitsPath("b1"))
  /\ Len(hist.entries) < MaxEntries
  /\ \E title \in Titles :
       \E entry \in {Entry(FormatId(Len(hist.entries) + 1), "b1", title,
                           "w1", "y1", "f1", "n1")} :
         /\ fs' = prependCommit(fs, "b1", entry)
         /\ last' = [op |-> "prependCommit"]
         /\ hist' = [hist EXCEPT !.entries = <<entry>> \o @]

JournalNext == JournalCreate \/ JournalPrepend

SpecJournal == JournalInit /\ [][JournalNext]_vars

RECURSIVE Flatten(_)
Flatten(ss) == IF ss = <<>> THEN <<>> ELSE ss[1] \o Flatten(Drop(ss, 1))

(* C19: whatever the purpose and the hypothesis of a branch journal are,    *)
(* the journal is its header as it was created, up to and including the     *)
(* milestone-journal anchor, followed by the inserted commit blocks, the    *)
(* newest first: every block went in right after the anchor, after all      *)
(* header fields and before all earlier blocks, and the header is intact.   *)
C19_InsertAfterAnchor ==
  existsSync(fs, getCommitsPath("b1")) =>
    fs.files[getCommitsPath("b1")]
      = BranchHeader("b1", hist.purpose, hist.hypothesis) \o Flatten(hist.entries)

----------------------------------------------------------------------------
(* src/src/context.ts: reading; src/src/mcp/operations/context.ts           *)

(* The text of a marker line from its "## [C<digits>]" on, and the text     *)
(* before it: an unterminated piece of a line, of kind "part".              *)
FromMarker(l) == IF l = MarkerText THEN L("txt", l.n, "## [C005]", "", "") ELSE l

BeforeMarker(l) == IF l = MarkerText THEN <<L("part", <<>>, "see ", "", "")>> ELSE <<>>

(* content.split(/(?=## \[C\d+\])/).filter(e => e.startsWith('## [C')): the *)
(* pieces that begin at a marker, each up to the next marker.               *)
RECURSIVE EntriesFrom(_, _)
EntriesFrom(content, i) ==
  LET next == Least({q \in (i + 1)..Len(content) : HasMarker(content[q])})
  IN  IF next = 0 THEN <<<<FromMarker(content[i])>> \o Drop(content, i)>>
      ELSE <<<<FromMarker(content[i])>> \o SubSeq(content, i + 1, next - 1)
               \o BeforeMarker(content[next])>>
             \o EntriesFrom(content, next)

Entries(content) ==
  LET i == Least({q \in 1..Len(content) : HasMarker(content[q])})
  IN  IF i = 0 THEN <<>> ELSE EntriesFrom(content, i)

(* entries.join('\n'): the "\n" ends an unterminated last line of an entry  *)
(* and is an empty line after a terminated one.                             *)
RECURSIVE JoinEntries(_)
JoinEntries(entries) ==
  IF entries = <<>> THEN <<>>
  ELSE IF Len(entries) = 1 THEN entries[1]
  ELSE LET e == entries[1]
       IN  (IF e[Len(e)].k = "part"
            THEN Take(e, Len(e) - 1) \o <<Txt(e[Len(e)].a)>>
            ELSE e \o <<Blank>>) \o JoinEntries(Drop(entries, 1))

readMainContext(f) == IF existsSync(f, MainMdPath) THEN f.files[MainMdPath] ELSE <<>>

readRecentCommits(f, branch, count) ==
  IF ~existsSync(f, getCommitsPath(branch)) THEN <<>>
  ELSE JoinEntries(Slice0(Entries(f.files[getCommitsPath(branch)]), count))

(* <<>> stands for null.                                                    *)
getBranchHeader(f, branchName) ==
  IF ~existsSync(f, getCommitsPath(branchName)) THEN <<>>
  ELSE LET content == f.files[getCommitsPath(branchName)]
           i == Least({q \in 1..Len(content) : HasMarker(content[q])})
       IN  IF i = 0 THEN Trim(content)
           ELSE Trim(Take(content, i - 1) \o BeforeMarker(content[i]))

(* A what-text that refers to the first commit by its bracketed id.         *)
QuoteWhat == "follow-up to [C001]"

(* e.includes(`[${commitId}]`): a marker of the entry has the id, or a      *)
(* field's text quotes it in brackets.                                      *)
IncludesId(e, commitId) ==
  \E q \in 1..Len(e) :
    \/ e[q].n = commitId
    \/ e[q].k = "fld" /\ e[q].b = QuoteWhat /\ commitId = FormatId(1)

findCommitById(f, branch, commitId) ==
  IF ~existsSync(f, getCommitsPath(branch)) THEN <<>>
  ELSE LET entries == Entries(f.files[getCommitsPath(branch)])
           i == Least({q \in 1..Len(entries) : IncludesId(entries[q], commitId)})
       IN  IF i = 0 THEN <<>> ELSE Trim(entries[i])

(* toLowerCase on the terms the model searches for.                         *)
Lower(term) ==
  CASE term = "T1" -> "t1" [] term = "W1" -> "w1" [] term = "H1" -> "h1"
    [] OTHER -> term

(* e.toLowerCase().includes(lowerTerm).  The terms searched for are whole   *)
(* texts of the model (a title, a what-text, a hypothesis) that are part of *)
(* no other text: a line includes the term when one of its texts is it.     *)
LineIncludes(l, lowerTerm) == lowerTerm \in {Lower(l.a), Lower(l.b), Lower(l.c)}

IncludesTerm(e, term) == \E q \in 1..Len(e) : LineIncludes(e[q], Lower(term))

SearchCap == 5

searchCommits(f, branch, term) ==
  IF ~existsSync(f, getCommitsPath(branch)) THEN <<>>
  ELSE LET entries == Entries(f.files[getCommitsPath(branch)])
           matches == SelectSeq(entries, LAMBDA e : IncludesTerm(e, term))
       IN  Trim(JoinEntries(Slice0(matches, SearchCap)))

RecentCount == 3

ExtendedCount == 10

(* One element of parts: a heading line naming `who`, and the text under it *)
Part(h, who, body) == [h |-> h, who |-> who, body |-> body]

PartIf(cond, part) == IF cond THEN <<part>> ELSE <<>>

wantsHeader_AnyBranch(level, branch) == level >= 3

wantsHeader(level, branch) == level >= 3 /\ branch # "main"

(* handleContext.  "" (for commit_id: <<>>) stands for an absent argument;  *)
(* the result is the                                                        *)
(* error text or the parts that parts.join('\n') puts together.             *)
handleContext(f, args) ==
  IF args.level < 1 \/ args.level > 5 THEN [err |-> "level", parts |-> <<>>]
  ELSE LET activeBranch == getActiveBranch(f)
           branch == IF args.branch # "" THEN args.branch ELSE activeBranch
           recentCommits == readRecentCommits(f, branch, RecentCount)
           header == getBranchHeader(f, branch)
           moreCommits == readRecentCommits(f, branch, ExtendedCount)
           specific == findCommitById(f, branch, args.commit_id)
           matches == searchCommits(f, branch, args.metadata_segment)
       IN  IF readMainContext(f) = <<>> THEN [err |-> "no context", parts |-> <<>>]
           ELSE [err |-> "",
                 parts |->
                   <<Part("## GCC Context (Active)", activeBranch, <<>>),
                     Part("", "", readMainContext(f))>>
                   \o PartIf(args.level >= 2 /\ args.level < 4 /\ recentCommits # <<>>,
                             Part("## Recent Commits", branch, recentCommits))
                   \o PartIf(wantsHeader(args.level, branch) /\ header # <<>>,
                             Part("## Branch", branch, header))
                   \o PartIf(args.level >= 4 /\ moreCommits # <<>>,
                             Part("## Extended History", branch, moreCommits))
                   \o PartIf(args.level >= 5 /\ args.commit_id # <<>>,
                             IF specific # <<>>
                             THEN Part("## Commit", args.commit_id, specific)
                             ELSE Part("## Commit not found in branch", branch, <<>>))
                   \o PartIf(args.level >= 5 /\ args.metadata_segment # "",
                             IF matches # <<>>
                             THEN Part("## Search", args.metadata_segment, matches)
                             ELSE Part("## No matches in branch", branch, <<>>))]

----------------------------------------------------------------------------
(* Reading the context of a project that is worked on.  In the              *)
(* specification SpecContext the variables hold                             *)
(*   fs   : the context root                                                *)
(*   last : the latest call; for gcc_context its arguments and its output   *)
(*   hist : the number of commits made                                      *)

MaxCtxCommits == 11

(* The title of the n-th commit: every commit has a title of its own, none  *)
(* part of another.                                                         *)
CtxTitles == <<"t1", "ta", "tb", "tc", "td", "te", "tf", "tg", "th", "ti", "tj", "tk">>

(* The what-texts a commit may have: an early commit may quote "[C001]".    *)
CtxWhats(n) == IF n = 2 THEN {"w1", QuoteWhat} ELSE {"w1"}

ContextArgs(level, branch, commit_id, metadata_segment) ==
  [level |-> level, branch |-> branch, commit_id |-> commit_id,
   metadata_segment |-> metadata_segment]

ContextInputs ==
  {ContextArgs(level, branch, <<>>, "") : level \in 0..6, branch \in {"", "main", "b1"}}
    \cup {ContextArgs(5, "", id, term) :
            id \in {<<>>, FormatId(1), FormatId(5)},
            term \in {"", "T1", "W1", "H1", "zz"}}

CtxInit ==
  /\ fs = ensureContextStructure(EmptyFs)
  /\ last = [op |-> "none", args |-> <<>>, out |-> <<>>]
  /\ hist = [commits |-> 0]

CtxWrite(op, args, out) ==
  /\ fs' = out.f
  /\ last' = [op |-> op, args |-> args, out |-> out.r]
  /\ hist' = IF op = "commit" THEN [commits |-> hist.commits + 1] ELSE hist

CtxCommit ==
  /\ hist.commits < MaxCtxCommits
  /\ \E what \in CtxWhats(hist.commits + 1) :
       \E out \in {handleCommit(fs, CommitArgs(CtxTitles[hist.commits + 1], what,
                                               <<"f1">>))} :
         CtxWrite("commit", CommitArgs(CtxTitles[hist.commits + 1], what, <<"f1">>),
                  out)

CtxBranch ==
  \E purpose \in Purposes :
    \E out \in {handleBranch(fs, BranchArgs("b1", purpose, <<Txt("h1")>>))} :
      CtxWrite("branch", BranchArgs("b1", purpose, <<Txt("h1")>>), out)

CtxMerge ==
  \E out \in {handleMerge(fs, MergeArgs("b1", "success", "c1"))} :
    CtxWrite("merge", MergeArgs("b1", "success", "c1"), out)

(* A read leaves the files as they are: a read that follows a read starts   *)
(* from the same files and is left out.                                     *)
Context ==
  /\ last.op # "context"
  /\ \E args \in ContextInputs :
       \E out \in {handleContext(fs, args)} :
         /\ last' = [op |-> "context", args |-> args, out |-> out]
         /\ UNCHANGED <<fs, hist>>

CtxNext == CtxCommit \/ CtxBranch \/ CtxMerge \/ Context

SpecContext == CtxInit /\ [][CtxNext]_vars

(* The branch a context call reads: the requested one, else the active one. *)
RequestedBranch(f, args) ==
  IF args.branch # "" THEN args.branch ELSE getActiveBranch(f)

(* C20: whenever the requested (or, with none requested, the active) branch *)
(* is 'main', context(level=3) returns the same output as context(level=2)  *)
(* with the same other arguments.                                           *)
C20_Level3OnMain ==
  (/\ last.op = "context"
   /\ last.args.level = 3
   /\ RequestedBranch(fs, last.args) = "main")
    => last.out = handleContext(fs, [last.args EXCEPT !.level = 2])

C20_Witness ==
  /\ last.op = "context"
  /\ last.args.level = 3
  /\ RequestedBranch(fs, last.args) = "main"
  /\ existsSync(fs, getCommitsPath("b1"))
  /\ Len(last.out.parts) = 3
  /\ last.out.parts[3].h = "## Recent Commits"

(* The commit blocks of a journal, top to bottom: each from its header line *)
(* to the line before the next header line.                                 *)
RECURSIVE CommitBlocksFrom(_, _)
CommitBlocksFrom(content, i) ==
  LET next == Least({q \in (i + 1)..Len(content) : IsHdr(content[q])})
  IN  IF next = 0 THEN <<Drop(content, i - 1)>>
      ELSE <<SubSeq(content, i, next - 1)>> \o CommitBlocksFrom(content, next)

CommitBlocks(f, branch) ==
  IF ~existsSync(f, getCommitsPath(branch)) THEN <<>>
  ELSE LET content == f.files[getCommitsPath(branch)]
           i == Least({q \in 1..Len(content) : IsHdr(content[q])})
       IN  IF i = 0 THEN <<>> ELSE CommitBlocksFrom(content, i)

(* The header lines of the commit blocks that a text shows.                 *)
Heads(lines) == SelectSeq(lines, IsHdr)

(* The text of the part of an output under the heading h, <<>> if none.     *)
PartBody(out, h) ==
  LET i == Least({q \in 1..Len(out.parts) : out.parts[q].h = h})
  IN  IF i = 0 THEN <<>> ELSE out.parts[i].body

HasPart(out, h) == \E q \in 1..Len(out.parts) : out.parts[q].h = h

(* C21: the output at level 4 or 5 has no 'Recent Commits' section, its     *)
(* extended history shows the (up to 10) most recent commit blocks of the   *)
(* branch once each, newest first, and every commit block that level 2      *)
(* shows is among them.                                                     *)
C21_LevelsNest ==
  (last.op = "context" /\ last.out.err = "" /\ last.args.level >= 4) =>
    LET branch == RequestedBranch(fs, last.args)
        shown == Heads(PartBody(last.out, "## Extended History"))
        low == Heads(PartBody(handleContext(fs, [last.args EXCEPT !.level = 2]),
                              "## Recent Commits"))
    IN  /\ ~HasPart(last.out, "## Recent Commits")
        /\ shown = Heads(JoinEntries(Slice0(CommitBlocks(fs, branch), ExtendedCount)))
        /\ \A q \in 1..Len(low) : InSeq(low[q], shown)

(* The first commit block of the branch whose header has the id, <<>> when  *)
(* there is none.                                                           *)
BlockWithId(f, branch, id) ==
  LET blocks == CommitBlocks(f, branch)
      i == Least({q \in 1..Len(blocks) : blocks[q][1].n = id})
  IN  IF i = 0 THEN <<>> ELSE blocks[i]

(* C22: context(level 5, commit_id) shows the block of the commit of the    *)
(* branch that has this id when there is one, and a 'not found' line when   *)
(* there is none; it never shows the block of a commit with another id.     *)
C22_LookupById ==
  (/\ last.op = "context" /\ last.out.err = ""
   /\ last.args.level = 5 /\ last.args.commit_id # <<>>) =>
    LET block == BlockWithId(fs, RequestedBranch(fs, last.args), last.args.commit_id)
        shown == PartBody(last.out, "## Commit")
    IN  IF block = <<>>
        THEN /\ HasPart(last.out, "## Commit not found in branch")
             /\ ~HasPart(last.out, "## Commit")
        ELSE /\ ~HasPart(last.out, "## Commit not found in branch")
             /\ shown # <<>>
             /\ IsHdr(shown[1]) /\ shown[1].n = last.args.commit_id
             /\ shown = Trim(BlockWithId(fs, RequestedBranch(fs, last.args), shown[1].n))

(* The commit blocks of the branch that include the term, newest first.     *)
BlocksWithTerm(f, branch, term) ==
  SelectSeq(CommitBlocks(f, branch), LAMBDA e : IncludesTerm(e, term))

(* C23: context(level 5, term) shows exactly the first (up to 5) commit     *)
(* blocks of the branch that contain the term, whatever the case of its     *)
(* letters, in journal order, and a 'no matches' line when no block         *)
(* contains it; what it shows does not depend on the commit_id argument.    *)
C23_Search ==
  (/\ last.op = "context" /\ last.out.err = ""
   /\ last.args.level = 5 /\ last.args.metadata_segment # "") =>
    LET found == BlocksWithTerm(fs, RequestedBranch(fs, last.args),
                                last.args.metadata_segment)
        alone == handleContext(fs, [last.args EXCEPT !.commit_id = <<>>])
    IN  /\ IF found = <<>>
           THEN /\ HasPart(last.out, "## No matches in branch")
                /\ ~HasPart(last.out, "## Search")
           ELSE /\ ~HasPart(last.out, "## No matches in branch")
                /\ PartBody(last.out, "## Search")
                     = Trim(JoinEntries(Slice0(found, SearchCap)))
        /\ PartBody(last.out, "## Search") = PartBody(alone, "## Search")
        /\ HasPart(last.out, "## No matches in branch")
             = HasPart(alone, "## No matches in branch")

----------------------------------------------------------------------------
(* Branch names.  In the specification SpecNames the variables hold         *)
(*   fs   : the context root                                                *)
(*   last : the latest call and its result                                  *)
(*   hist : the number of calls made                                        *)

MaxCalls == 4

GoodNames == {"b1", "a-1"}

BadNames == {"Bad_Name", "a_b", "a--b", "-a", "a-", "1a", ""}

NamesInit ==
  /\ fs = ensureContextStructure(EmptyFs)
  /\ last = NoCall
  /\ hist = [calls |-> 0]

NamesCall(op, args, out) ==
  /\ hist.calls < MaxCalls
  /\ fs' = out.f
  /\ last' = [op |-> op, args |-> args, r |-> out.r]
  /\ hist' = [calls |-> hist.calls + 1]

NamesBranch ==
  \E name \in GoodNames \cup BadNames :
    \E out \in {handleBranch(fs, BranchArgs(name, <<Txt("p1")>>, <<Txt("h1")>>))} :
      NamesCall("branch", BranchArgs(name, <<Txt("p1")>>, <<Txt("h1")>>), out)

NamesMerge ==
  \E name \in GoodNames :
    \E out \in {handleMerge(fs, MergeArgs(name, "success", "c1"))} :
      NamesCall("merge", MergeArgs(name, "success", "c1"), out)

NamesNext == NamesBranch \/ NamesMerge

SpecNames == NamesInit /\ [][NamesNext]_vars

(* C24: branch with a name that does not match the kebab-case pattern       *)
(* returns a validation error, creates no branch directory, adds no         *)
(* registry row and changes neither the active branch nor the list of open  *)
(* branches.                                                                *)
C24_BadNameStep ==
  (last'.op = "branch" /\ last'.args.name \in BadNames) =>
    /\ ~last'.r.ok
    /\ last'.r.err \in {"required", "kebab-case"}
    /\ fs'.dirs = fs.dirs
    /\ DOMAIN fs'.files = DOMAIN fs.files
    /\ HistoryRows(fs') = HistoryRows(fs)
    /\ getActiveBranch(fs') = getActiveBranch(fs)
    /\ OpenList(fs') = OpenList(fs)

C24_BadName == [][C24_BadNameStep]_vars

C24_Witness ==
  /\ last.op = "branch"
  /\ last.args.name = "a--b"
  /\ ~last.r.ok
  /\ getActiveBranch(fs) = "a-1"
  /\ Len(HistoryRows(fs)) = 2

----------------------------------------------------------------------------
(* C25: commit with an empty title, what, why or next, or with an empty     *)
(* list of files, returns an error, hands out no identifier and leaves the  *)
(* journals, the Project Summary, the logs and the registry as they were.   *)
C25_InvalidCommitStep ==
  (/\ last'.op = "commit"
   /\ \/ "" \in {last'.args.title, last'.args.what, last'.args.why,
                 last'.args.next_step}
      \/ last'.args.files_changed = <<>>)
    => /\ ~last'.r.ok
       /\ last'.r.id = <<>>
       /\ fs' = fs

C25_InvalidCommit == [][C25_InvalidCommitStep]_vars

C25_Witness ==
  /\ last.op = "commit"
  /\ last.args.next_step = ""
  /\ ~last.r.ok
  /\ Blocks(fs, "b1") # <<>>
  /\ getActiveBranch(fs) = "b1"

----------------------------------------------------------------------------
(* C26: when migration finds a legacy root log and a log of 'main' that     *)
(* exists already, the legacy log's content is appended after the existing  *)
(* content of main's log and the legacy file is renamed aside as a backup.  *)
C26_LogStep ==
  (/\ last.pc = "log" /\ last'.pc = "mainlog"
   /\ existsSync(fs, RootLogPath) /\ existsSync(fs, getLogPath("main")))
    => /\ ~existsSync(fs', RootLogPath)
       /\ existsSync(fs', RootLogBackup)
       /\ fs'.files[RootLogBackup] = fs.files[RootLogPath]
       /\ Take(fs'.files[getLogPath("main")], Len(fs.files[getLogPath("main")]))
            = fs.files[getLogPath("main")]
       /\ IsSuffix(fs.files[RootLogPath], fs'.files[getLogPath("main")])
       /\ Len(fs'.files[getLogPath("main")])
            >= Len(fs.files[getLogPath("main")]) + Len(fs.files[RootLogPath])

C26_LogMerged == [][C26_LogStep]_vars

----------------------------------------------------------------------------
(* C27: migration never deletes user data.  Every line that was in a legacy *)
(* file before migration is in some file of the context root once a run of  *)
(* migrate() has returned, and no step of migration changes what is in      *)
(* main's journal already: it only appends after it.                        *)
C27_StillOnDisk ==
  (hist.returned /\ last.pc = "idle") => hist.legacy \subseteq LinesIn(fs, DOMAIN fs.files)

C27_KeepsMainStep ==
  (last.pc # "idle" /\ last'.pc # last.pc /\ existsSync(fs, getCommitsPath("main")))
    => /\ existsSync(fs', getCommitsPath("main"))
       /\ Take(fs'.files[getCommitsPath("main")], Len(fs.files[getCommitsPath("main")]))
            = fs.files[getCommitsPath("main")]

C27_NoDataLoss == []C27_StillOnDisk /\ [][C27_KeepsMainStep]_vars

----------------------------------------------------------------------------
(* The hooks and the tool dispatch on a root that may have the legacy       *)
(* layout.  In the specification SpecHooks the variables hold               *)
(*   fs   : the context root                                                *)
(*   last : the latest hook or tool call; legacy tells whether              *)
(*          needsMigration() was true when the call came to its first       *)
(*          access to the per-branch layout                                 *)
(*   hist : the number of calls made and of completed runs of migrate()     *)

MaxHookCalls == 3

HookRoots ==
  {EmptyFs, ensureContextStructure(EmptyFs)}
    \cup {V1Layout(rc, Absent, rl, Absent, b1, Absent) :
            rc \in RootJournals, rl \in Logs,
            b1 \in {Absent, V1BranchFile("b1", <<>>, <<PlaceholderLine>>)}}

HooksInit ==
  /\ fs \in HookRoots
  /\ last = [op |-> "none", legacy |-> FALSE]
  /\ hist = [calls |-> 0, migrations |-> 0]

(* if (needsMigration(contextRoot)) migrateV1ToV2(contextRoot)              *)
MigrateIfNeeded(f) == IF needsMigration(f) THEN migrateV1ToV2(f) ELSE f

HookCall(op, start, out) ==
  /\ hist.calls < MaxHookCalls
  /\ fs' = out
  /\ last' = [op |-> op, legacy |-> needsMigration(start)]
  /\ hist' = [calls |-> hist.calls + 1,
              migrations |-> hist.migrations + (IF start # fs THEN 1 ELSE 0)]

(* src/unnamed/part_006: the SessionStart hook: migration if needed,        *)
(* bootstrap, then the reads.                                               *)
SessionStart ==
  \E start \in {MigrateIfNeeded(fs)} :
    HookCall("SessionStart", start, ensureContextStructure(start))

(* src/unnamed/part_007: the PostToolUse hook: bootstrap, then the append   *)
(* to the log of the active branch.                                         *)
PostToolUse ==
  \E g \in {ensureContextStructure(fs)} :
    HookCall("PostToolUse", fs,
             appendLog(g, getActiveBranch(g), MainLogLine, LogMaxLinesDefault))

(* dispatch('gcc_commit'): migration if needed, bootstrap, the handler.     *)
ToolCall ==
  \E start \in {MigrateIfNeeded(fs)} :
    HookCall("dispatch", start,
             dispatch(fs, "gcc_commit", CommitArgs("t1", "w1", <<"f1">>), "none").f)

HooksNext == SessionStart \/ PostToolUse \/ ToolCall

SpecHooks == HooksInit /\ [][HooksNext]_vars

(* C28: no hook and no tool call comes to bootstrap, a commit, a log append *)
(* or a read of the per-branch layout while needsMigration() is true, and   *)
(* migrate() completes at most once per project.                            *)
C28_MigrateFirst ==
  /\ last.op # "none" => ~last.legacy
  /\ hist.migrations <= 1

----------------------------------------------------------------------------
(* Merging a branch whose storage came from migration.  In the              *)
(* specification SpecMigratedMerge the variables hold                       *)
(*   fs   : the context root                                                *)
(*   last : the latest tool call and its result                             *)
(*   hist : the number of calls made                                        *)

MaxToolCalls == 3

(* The registry of a legacy root on which branch b is open and active.      *)
RegistryOn(b) ==
  <<ActiveHeading, Txt(b), Blank,
    Txt("## Branch History"),
    Row("Branch", "Status", "Created"),
    Txt("|--------|--------|---------|"),
    Row(b, "active", Today)>>

MergeRoots ==
  {ensureContextStructure(EmptyFs)}
    \cup {writeFile(V1Layout(rc, Absent, Absent, Absent, b1, Absent),
                    RegistryPath, RegistryOn("b1")) :
            rc \in RootJournals, b1 \in V1BranchFiles("b1") \ {Absent}}

MmInit ==
  /\ fs \in MergeRoots
  /\ last = NoCall
  /\ hist = [calls |-> 0]

(* dispatch, lines 70-76, without faults: migration if needed, bootstrap.   *)
Ready(f) == ensureContextStructure(MigrateIfNeeded(f))

MmCall(op, args, out) ==
  /\ hist.calls < MaxToolCalls
  /\ fs' = out.f
  /\ last' = [op |-> op, args |-> args, r |-> out.r]
  /\ hist' = [calls |-> hist.calls + 1]

MmCommit ==
  \E out \in {handleCommit(Ready(fs), CommitArgs("t1", "w1", <<"f1">>))} :
    MmCall("commit", CommitArgs("t1", "w1", <<"f1">>), out)

MmBranch ==
  \E name \in {"b1", "b2"} :
    \E out \in {handleBranch(Ready(fs), BranchArgs(name, <<Txt("p1")>>, <<Txt("h1")>>))} :
      MmCall("branch", BranchArgs(name, <<Txt("p1")>>, <<Txt("h1")>>), out)

MmMerge ==
  \E name \in {"b1", "b2"}, outcome \in OUTCOMES :
    \E out \in {handleMerge(Ready(fs), MergeArgs(name, outcome, "c1"))} :
      MmCall("merge", MergeArgs(name, outcome, "c1"), out)

MmNext == MmCommit \/ MmBranch \/ MmMerge

SpecMigratedMerge == MmInit /\ [][MmNext]_vars

(* The header of a journal: its text above the milestone-journal anchor.    *)
HeaderOf(content) ==
  LET i == Least({q \in 1..Len(content) : content[q] = JournalAnchor})
  IN  IF i = 0 THEN content ELSE Take(content, i - 1)

(* C29: after a successful merge of a branch, also one whose storage        *)
(* migration produced, the Conclusion section of the header of the branch's *)
(* journal holds the outcome and the conclusion text, and the header shows  *)
(* the unfilled placeholder no more.                                        *)
C29_ConclusionFilled ==
  (last.op = "merge" /\ last.r.ok) =>
    /\ existsSync(fs, getCommitsPath(last.args.branch_name))
    /\ LET header == HeaderOf(fs.files[getCommitsPath(last.args.branch_name)])
       IN  /\ ~InSeq(PlaceholderLine, header)
           /\ \E q \in 1..(Len(header) - 2) :
                /\ header[q] = ConclusionHeading
                /\ header[q + 1] = Fld("Outcome", last.args.outcome)
                /\ header[q + 2] = Txt(last.args.conclusion)

----------------------------------------------------------------------------
(* Log rotation.  In the specification SpecLog the variables hold           *)
(*   fs   : the context root                                                *)
(*   last : the latest appendLog call: its line and its maxLines            *)
(*   hist : maxLines as chosen for the run, and every line the log was      *)
(*          given so far, oldest first                                      *)

MaxAppends == 501

(* maxLines of the runs: one line, either side of where the fixed tail      *)
(* begins to bite, and the default.                                         *)
MaxLinesChoices == {1, LogTail - 2, LogTail - 1, LogTail, LogMaxLinesDefault}

(* The i-th line a run appends.                                             *)
LogEntry(i) == L("log", <<i>>, "COMMIT ", "", Now)

LogInit ==
  /\ fs = ensureContextStructure(EmptyFs)
  /\ last = [op |-> "none", line |-> LogEntry(0)]
  /\ \E m \in MaxLinesChoices :
       hist = [maxLines |-> m, given |-> fs.files[getLogPath("main")]]

LogAppend ==
  /\ Len(hist.given) < MaxAppends
  /\ \E line \in {LogEntry(Len(hist.given) + 1)} :
       /\ fs' = appendLog(fs, "main", line, hist.maxLines)
       /\ last' = [op |-> "appendLog", line |-> line]
       /\ hist' = [hist EXCEPT !.given = hist.given \o <<line>>]

LogNext == LogAppend

SpecLog == LogInit /\ [][LogNext]_vars

(* C30: for every maxLines, after an appendLog call the log holds at most   *)
(* maxLines lines, these are the most recent of the lines it was given, in  *)
(* their order, and the appended line is the last of them.                  *)
C30_LogBounded ==
  last.op = "appendLog" =>
    LET log == fs.files[getLogPath("main")]
    IN  /\ Len(log) <= hist.maxLines
        /\ IsSuffix(log, hist.given)
        /\ Len(log) >= 1
        /\ log[Len(log)] = last.line

----------------------------------------------------------------------------
(* The configured rotation threshold.  In the specification SpecLogConfig   *)
(* the variables hold                                                       *)
(*   fs   : the context root, with or without a config.json                 *)
(*   last : the latest operation and its result                             *)
(*   hist : the number of operations so far                                 *)

MaxLogCalls == 3

(* A logMaxLines somebody configured, above the fixed tail of appendLog.    *)
ConfiguredLines == 250

(* Lengths at which main's log stands when the run begins: short, one line  *)
(* below the configured threshold, two lines below the default; a run       *)
(* begins below its own threshold.                                          *)
LogFills == {0, ConfiguredLines - 1, LogMaxLinesDefault - 2}

HookLine == L("log", <<>>, "TOOL ", "Edit f1", Now)

LcInit ==
  /\ \E lines \in {LogMaxLinesDefault, ConfiguredLines} :
     \E n \in {m \in LogFills : m < lines} :
       fs = writeFile(
              IF lines = LogMaxLinesDefault THEN ensureContextStructure(EmptyFs)
              ELSE writeFile(ensureContextStructure(EmptyFs), ConfigPath,
                             ConfigFileOf(MilestonesKept, lines)),
              getLogPath("main"), [i \in 1..n |-> HookLine])
  /\ last = NoCall
  /\ hist = [calls |-> 0]

LcCall(op, args, out) ==
  /\ hist.calls < MaxLogCalls
  /\ fs' = out.f
  /\ last' = [op |-> op, args |-> args, r |-> out.r]
  /\ hist' = [calls |-> hist.calls + 1]

LcCommit ==
  \E out \in {handleCommit(fs, CommitArgs("t1", "w1", <<"f1">>))} :
    LcCall("commit", CommitArgs("t1", "w1", <<"f1">>), out)

LcBranch ==
  \E out \in {handleBranch(fs, BranchArgs("b1", <<Txt("p1")>>, <<Txt("h1")>>))} :
    LcCall("branch", BranchArgs("b1", <<Txt("p1")>>, <<Txt("h1")>>), out)

LcMerge ==
  \E out \in {handleMerge(fs, MergeArgs("b1", "success", "c1"))} :
    LcCall("merge", MergeArgs("b1", "success", "c1"), out)

(* src/unnamed/part_007: the PostToolUse hook appends its line to the log   *)
(* of the active branch.                                                    *)
LcHook ==
  \E out \in {[f |-> appendLog(fs, getActiveBranch(fs), HookLine, LogMaxLinesDefault),
               r |-> Ok(<<>>, getActiveBranch(fs))]} :
    LcCall("hook", <<>>, out)

LcNext == LcCommit \/ LcBranch \/ LcMerge \/ LcHook

SpecLogConfig == LcInit /\ [][LcNext]_vars

(* C31: the logMaxLines of the project configuration is the rotation        *)
(* threshold: after a commit, branch, merge or hook has appended its line,  *)
(* no branch log holds more lines than the configured logMaxLines.          *)
C31_ConfiguredThreshold ==
  (last.op # "none" /\ last.r.ok) =>
    \A b \in {"main", "b1"} :
      existsSync(fs, getLogPath(b)) =>
        Len(fs.files[getLogPath(b)]) <= loadConfig(fs).logMaxLines

----------------------------------------------------------------------------
(* prependCommit on journals without the milestone-journal anchor.  In the  *)
(* specification SpecPlainJournal the variables hold                        *)
(*   fs   : the context root with the journal of branch "b1"                *)
(*   last : the latest prependCommit: the journal it found and its entry    *)
(*   hist : the number of entries given so far                              *)

MaxPrepends == 4

(* Journals that somebody wrote without the anchor: a title block and text, *)
(* the same with a second empty line further down, a text without an empty  *)
(* line, an empty file, a text that begins with an empty line, and a text   *)
(* that ends at its first empty line.                                       *)
PlainJournals ==
  {<<Txt("# b1"), Blank, Txt("x1")>>,
   <<Txt("# b1"), Blank, Txt("x1"), Blank, Txt("x2")>>,
   <<Txt("# b1"), Txt("x1")>>,
   <<>>,
   <<Blank, Txt("x1")>>,
   <<Txt("x1"), Blank>>}

PlainInit ==
  /\ \E j \in PlainJournals :
       fs = writeFile(mkdirSync(ensureContextStructure(EmptyFs), "b1"),
                      getCommitsPath("b1"), j)
  /\ last = [op |-> "none", before |-> <<>>, entry |-> <<>>]
  /\ hist = [entries |-> 0]

PlainPrepend ==
  /\ hist.entries < MaxPrepends
  /\ \E title \in Titles :
       \E entry \in {Entry(FormatId(hist.entries + 1), "b1", title,
                           "w1", "y1", "f1", "n1")} :
         /\ fs' = prependCommit(fs, "b1", entry)
         /\ last' = [op |-> "prependCommit",
                     before |-> fs.files[getCommitsPath("b1")], entry |-> entry]
         /\ hist' = [entries |-> hist.entries + 1]

PlainNext == PlainPrepend

SpecPlainJournal == PlainInit /\ [][PlainNext]_vars

(* The first empty line of a text that follows another line, 0 if none.     *)
FirstBoundary(text) == Least({i \in 2..Len(text) : text[i] = Blank})

(* C32: prependCommit on a journal without the anchor puts the entry right  *)
(* after the first blank-line boundary; on a journal with neither anchor    *)
(* nor blank line it puts the entry at the end; either way the text that    *)
(* was there is still there, in its order, around the entry.                *)
C32_PlainJournal ==
  (last.op = "prependCommit" /\ ~InSeq(JournalAnchor, last.before)) =>
    LET old == last.before
        new == fs.files[getCommitsPath("b1")]
        at  == FirstBoundary(old)
    IN  IF at # 0
        THEN new = Take(old, at) \o last.entry \o Drop(old, at)
        ELSE /\ IsSuffix(last.entry, new)
             /\ Take(new, Len(old)) = old
             /\ Len(new) <= Len(old) + Len(last.entry) + 1

(* A journal with text on both sides of its first boundary and a second     *)
(* empty line further down has been given an entry.                         *)
C32_Witness ==
  /\ last.op = "prependCommit"
  /\ ~InSeq(JournalAnchor, last.before)
  /\ FirstBoundary(last.before) # 0
  /\ \E i \in (FirstBoundary(last.before) + 1)..Len(last.before) :
       last.before[i] = Blank

----------------------------------------------------------------------------
(* What a commit leaves alone (specification Spec)                          *)

(* main.md without the lines of its Recent Milestones section.              *)
OutsideMilestones(f) ==
  LET content == f.files[MainMdPath]
      i == Least({q \in 1..Len(content) : IsMilestonesHeading(content[q])})
  IN  IF i = 0 THEN content
      ELSE Take(content, i) \o Drop(content, SectionEnd(content, i) - 1)

(* The files a commit on `branch` may write.                                *)
CommitWrites(branch) == {getCommitsPath(branch), getLogPath(branch), MainMdPath}

C33_Step ==
  (last'.op = "commit" /\ last'.r.ok) =>
    LET b == getActiveBranch(fs)
    IN  /\ getActiveBranch(fs') = b
        /\ last'.r.branch = b
        /\ fs'.files[RegistryPath] = fs.files[RegistryPath]
        /\ OpenList(fs') = OpenList(fs)
        /\ OutsideMilestones(fs') = OutsideMilestones(fs)
        /\ fs'.dirs = fs.dirs
        /\ DOMAIN fs'.files \ CommitWrites(b) = DOMAIN fs.files \ CommitWrites(b)
        /\ \A path \in DOMAIN fs.files \ CommitWrites(b) :
             fs'.files[path] = fs.files[path]
        /\ fs'.files[getCommitsPath(b)] # fs.files[getCommitsPath(b)]

(* C33: a successful commit leaves the active branch as it was and changes  *)
(* only the active branch's journal and log and the Recent Milestones list: *)
(* the registry, the open-branch list, the rest of the project summary and  *)
(* the journals and logs of every other branch stay as they were.           *)
C33_CommitFrame == [][C33_Step]_vars

(* A commit on an exploration branch, made after a branch was merged: main  *)
(* and the merged branch both have journals and logs the commit must leave. *)
C33_Witness ==
  /\ last.op = "commit" /\ last.r.ok
  /\ last.r.branch # "main"
  /\ hist.merged # {}

----------------------------------------------------------------------------
(* The open-branch list against the registry (specification Spec)           *)

(* The names whose history row says 'active'.                               *)
ActiveRows(f) ==
  {HistoryRows(f)[i].a :
     i \in {j \in 1..Len(HistoryRows(f)) : HistoryRows(f)[j].b = "active"}}

Count(x, s) == Cardinality({i \in 1..Len(s) : s[i] = x})

(* C34: the open-branch list of the project summary holds exactly the names *)
(* of the branches whose registry row has status 'active', each once, and   *)
(* the "(none)" sentinel exactly when there is no such branch.              *)
C34_OpenListMatchesRegistry ==
  LET open == OpenList(fs)
      names == {open[i].a : i \in 1..Len(open)} \ {"(none)"}
  IN  /\ names = ActiveRows(fs)
      /\ \A n \in names : Count(Item(n), open) = 1
      /\ InSeq(Item("(none)"), open) <=> ActiveRows(fs) = {}


(* C35: at most one history row of the registry has status 'active'; when   *)
(* the active branch is not 'main' that row is the active branch's row, and *)
(* when the active branch is 'main' no row has status 'active'.             *)
C35_OneActiveRow ==
  /\ Count("active", [i \in 1..Len(HistoryRows(fs)) |-> HistoryRows(fs)[i].b]) <= 1
  /\ ActiveRows(fs) = IF getActiveBranch(fs) = "main" THEN {}
                      ELSE {getActiveBranch(fs)}

----------------------------------------------------------------------------
(* Progress of the branch state machine (specification Spec)                *)

(* C36: in every reachable state a commit with valid fields is accepted,    *)
(* and when the active branch is an exploration branch b, a merge of b with *)
(* a valid outcome and a conclusion is accepted and leaves 'main' active:   *)
(* the project can always get back onto 'main'.                             *)
C36_NeverStuck ==
  /\ \A title \in Titles :
       handleCommit(fs, CommitArgs(title, "w1", <<"f1">>)).r.ok
  /\ getActiveBranch(fs) # "main" =>
       \A outcome \in OUTCOMES :
         LET out == handleMerge(fs, MergeArgs(getActiveBranch(fs), outcome, "c1"))
         IN  out.r.ok /\ getActiveBranch(out.f) = "main"

(* A second exploration branch is active after the first one was merged,    *)
(* with commits made on the way.                                            *)
C36_Witness ==
  /\ getActiveBranch(fs) # "main"
  /\ hist.merged # {}
  /\ UserCommits(fs) > 0


C37_Step ==
  \A b \in hist.merged :
    /\ getActiveBranch(fs') # b
    /\ existsSync(fs', getCommitsPath(b))
    /\ fs'.files[getCommitsPath(b)] = fs.files[getCommitsPath(b)]

(* C37: once a branch has been merged it never becomes the active branch    *)
(* again and its journal never changes again: no later commit, branch or    *)
(* merge adds a commit block to it or alters its header.                    *)
C37_MergedIsFinal ==
  [](\A b \in hist.merged : getActiveBranch(fs) # b) /\ [][C37_Step]_vars

(* After a merge, a successful commit and another successful branch and     *)
(* merge have followed, and a branch call naming the merged branch was      *)
(* refused.                                                                 *)
C37_Witness ==
  /\ Cardinality(hist.merged) = 2
  /\ UserCommits(fs) > 0
  /\ last.op = "branch" /\ ~last.r.ok
  /\ last.args.name \in hist.merged

----------------------------------------------------------------------------
(* Identifiers after migration (specification SpecMigrate)                  *)

(* The numbers of the commit blocks of main's journal that carry the title, *)
(* and of those that do not.                                                *)
IdsTitled(f, title) ==
  {ParseInt(l.n) : l \in {l \in LinesIn(f, {getCommitsPath("main")}) :
                            l.k = "hdr" /\ l.b = title}}

IdsNotTitled(f, title) ==
  {ParseInt(l.n) : l \in {l \in LinesIn(f, {getCommitsPath("main")}) :
                            l.k = "hdr" /\ l.b # title}}

(* C38: after migrate(), also when the legacy journal was appended to a     *)
(* main journal that existed, a commit on main gets an identifier that no   *)
(* commit block of main's journal carried before, one more than the highest *)
(* identifier there.                                                        *)
C38_FreshIdAfterMigrate ==
  (last.op = "commit" /\ hist.returned) =>
    \A id \in IdsTitled(fs, "t1") :
      /\ id \notin IdsNotTitled(fs, "t1")
      /\ \A other \in IdsNotTitled(fs, "t1") : id > other
      /\ id - 1 \in IdsNotTitled(fs, "t1") \cup {0}

----------------------------------------------------------------------------
(* Commits whose executions overlap in one server process.  handleCommit    *)
(* runs without interruption from one await to the next; between them       *)
(* another call may run.  In the specification SpecOverlap the variables    *)
(* hold                                                                     *)
(*   fs   : the context root                                                *)
(*   last : for each of two calls in flight, where it stands (pc), its      *)
(*          title, the identifier and branch it computed, and the text its  *)
(*          latest readFile returned (buf)                                  *)
(*   hist : the number of calls started and the results returned, in the    *)
(*          order of their return                                           *)
(* The log stays far below its rotation threshold, so the readFile that     *)
(* follows appendFile in appendLog writes nothing and is part of the step   *)
(* "log".                                                                   *)

MaxStarted == 3

Slots == {1, 2}

OverlapTitles == <<"t1", "t2", "t3", "t4">>

IdleCall == [pc |-> "idle", title |-> "", id |-> <<>>, branch |-> "", buf |-> <<>>]

OvInit ==
  /\ fs \in {ensureContextStructure(EmptyFs),
             handleBranch(ensureContextStructure(EmptyFs),
                          BranchArgs("b1", <<Txt("p1")>>, <<Txt("h1")>>)).f}
  /\ last = [p \in Slots |-> IdleCall]
  /\ hist = [started |-> 0, results |-> <<>>]

(* handleCommit, lines 106-128, and prependCommit up to its readFile: the   *)
(* active branch and the next identifier are read synchronously.            *)
OvStart(p) ==
  /\ last[p].pc = "idle"
  /\ hist.started < MaxStarted
  /\ last' = [last EXCEPT ![p] =
                [pc |-> "readJournal", title |-> OverlapTitles[hist.started + 1],
                 id |-> getNextCommitId(fs, getActiveBranch(fs)),
                 branch |-> getActiveBranch(fs), buf |-> <<>>]]
  /\ hist' = [hist EXCEPT !.started = @ + 1]
  /\ fs' = mkdirSync(fs, getActiveBranch(fs))

(* prependCommit: await readFile(commitsPath).                              *)
OvReadJournal(p) ==
  /\ last[p].pc = "readJournal"
  /\ last' = [last EXCEPT ![p].pc = "writeJournal",
                          ![p].buf = fs.files[getCommitsPath(last[p].branch)]]
  /\ UNCHANGED <<fs, hist>>

(* prependCommit: await writeFile(commitsPath, ...), the text built from    *)
(* what readFile returned.                                                  *)
OvWriteJournal(p) ==
  /\ last[p].pc = "writeJournal"
  /\ LET path == getCommitsPath(last[p].branch)
         read == [files |-> (path :> last[p].buf), dirs |-> {last[p].branch}]
         entry == Entry(last[p].id, last[p].branch, last[p].title,
                        "w1", "y1", "f1", "n1")
     IN  fs' = writeFile(fs, path, prependCommit(read, last[p].branch, entry).files[path])
  /\ last' = [last EXCEPT ![p].pc = "readMain", ![p].buf = <<>>]
  /\ UNCHANGED hist

(* updateMainMilestones: await readFile(mainPath).                          *)
OvReadMain(p) ==
  /\ last[p].pc = "readMain"
  /\ last' = [last EXCEPT ![p].pc = "writeMain", ![p].buf = fs.files[MainMdPath]]
  /\ UNCHANGED <<fs, hist>>

(* updateMainMilestones: await writeFile(mainPath, content).                *)
OvWriteMain(p) ==
  /\ last[p].pc = "writeMain"
  /\ LET read == [files |-> (MainMdPath :> last[p].buf), dirs |-> {}]
     IN  fs' = writeFile(fs, MainMdPath,
                 updateMainMilestones(read, Today, last[p].branch, last[p].title,
                                      loadConfig(fs).milestonesKept).files[MainMdPath])
  /\ last' = [last EXCEPT ![p].pc = "log", ![p].buf = <<>>]
  /\ UNCHANGED hist

(* appendLog, and the handler returns its text.                             *)
OvLog(p) ==
  /\ last[p].pc = "log"
  /\ fs' = appendLog(fs, last[p].branch,
             Log(Now, "COMMIT ", IdStr(last[p].id) \o ": " \o last[p].title),
             LogMaxLinesDefault)
  /\ last' = [last EXCEPT ![p] = IdleCall]
  /\ hist' = [hist EXCEPT !.results =
                @ \o <<[title |-> last[p].title, id |-> last[p].id,
                        branch |-> last[p].branch]>>]

OvNext ==
  \E p \in Slots :
    \/ OvStart(p)
    \/ OvReadJournal(p)
    \/ OvWriteJournal(p)
    \/ OvReadMain(p)
    \/ OvWriteMain(p)
    \/ OvLog(p)

SpecOverlap == OvInit /\ [][OvNext]_vars

(* C39: commits on one branch whose executions overlap behave as if run one *)
(* after the other: once all have returned, the identifiers returned are    *)
(* distinct and consecutive, and the journal holds a block for each commit, *)
(* under the identifier the commit returned.                                *)
C39_OverlapSerial ==
  (\A p \in Slots : last[p].pc = "idle") =>
    LET n == Len(hist.results)
    IN  /\ {ParseInt(hist.results[i].id) : i \in 1..n} = 1..n
        /\ \A i \in 1..n :
             InSeq(Hdr(hist.results[i].id, hist.results[i].branch, hist.results[i].title),
                   fs.files[getCommitsPath(hist.results[i].branch)])

====
